---- MODULE Spec2Model ----
(***************************************************************************)
(* State-machine model of the MSF decoder MSFUtils (src/src/lib.rs).       *)
(*                                                                         *)
(* Option<T> is modelled as a sequence: None is << >>, Some(x) is <<x>>.   *)
(* Times are u32 microsecond values counted in ticks of 16 microseconds:   *)
(* every threshold of the decoder is a multiple of 16 and so is 2^32, so   *)
(* for time stamps that are multiples of 16 us the u32 arithmetic of the   *)
(* code is the arithmetic modulo 2^28 on the tick counts, exactly.         *)
(***************************************************************************)
EXTENDS Integers, Sequences, FiniteSets, TLC

\* ---------------------------------------------------------------- Option
None == << >>

Some(x) == <<x>>

OptionBool == {None, Some(FALSE), Some(TRUE)}

\* ------------------------------------------------------------- constants
SPIKE_LIMIT == 30000

ACTIVE_0_LIMIT == 150000

ACTIVE_A_LIMIT == 250000

ACTIVE_AB_LIMIT == 350000

MINUTE_LIMIT == 550000

PASSIVE_RUNAWAY == 1500000

\* radio_datetime_utils::BIT_BUFFER_SIZE: the longest minute (61) plus a spare slot
BIT_BUFFER_SIZE == 62

\* const MARKER in search_eom_marker (Rust index idx is MARKER[idx + 1] here)
MARKER == <<FALSE, TRUE, TRUE, TRUE, TRUE, TRUE, TRUE, FALSE>>

\* ------------------------------------------------------------ time in ticks
Tick == 2^4

\* the number of ticks of a duration given in microseconds
Ticks(us) == us \div Tick

\* the number of u32 values that are whole ticks: 2^32 / 16
U32Ticks == 2^28

\* ------------------------------------------------------------------ state
VARIABLES
    first_minute,       \* bool
    new_minute,         \* bool: 0111_1110 marker seen
    past_new_minute,    \* bool: long bit at begin-of-minute seen
    new_second,         \* bool
    second,             \* u8
    bit_buffer_a,       \* [Option<bool>; BIT_BUFFER_SIZE], indexed from 0
    bit_buffer_b,       \* [Option<bool>; BIT_BUFFER_SIZE], indexed from 0
    before_first_edge,  \* bool
    t0,                 \* u32, in ticks
    old_t_diff,         \* u32, in ticks
    spike_limit,        \* u32, in ticks
    radio_datetime,     \* RadioDateTimeUtils: the accumulator of the decoded date and time
    parity_1,           \* Option<bool>
    parity_2,           \* Option<bool>
    parity_3,           \* Option<bool>
    parity_4,           \* Option<bool>
    dut1,               \* Option<i8>: DUT1 in deci-seconds
    panicked,           \* the last call did not return: it panicked on an arithmetic overflow
    pushed,             \* what the last decode_time call passed to the accumulator's setters
    frame_length,       \* driver: the number of seconds of the minute it feeds
    decodes,            \* driver: how many decode_time calls changed more than `call`
    minutes,            \* driver: how often the second counter went back to 0
    edges,              \* driver: how many edges were taken as the first edge or classified
    spikes,             \* driver: how many edges were ignored as spikes
    feed_from,          \* driver: the first of the seconds in which it feeds bits
    call                \* the operation executed last, its arguments and its return value

flagVars == <<first_minute, new_minute, past_new_minute, new_second>>

bufferVars == <<bit_buffer_a, bit_buffer_b>>

edgeVars == <<before_first_edge, t0, old_t_diff, spike_limit>>

decodeVars == <<radio_datetime, parity_1, parity_2, parity_3, parity_4, dut1,
                pushed>>

vars == <<first_minute, new_minute, past_new_minute, new_second, second,
          bit_buffer_a, bit_buffer_b, radio_datetime, parity_1, parity_2,
          parity_3, parity_4, dut1, before_first_edge, t0, old_t_diff,
          spike_limit, panicked, pushed, minutes, edges, spikes, feed_from,
          frame_length, decodes, call>>

driverVars == <<minutes, edges, spikes, feed_from, frame_length, decodes>>

Slots == 0 .. (BIT_BUFFER_SIZE - 1)

\* what `call` holds: op is the method, low and t the edge (t also the limit
\* passed to set_spike_limit), value the bit passed (for get_unary_value the
\* value returned), t_diff and old the interval and the previous interval of
\* the edge, ret the returned boolean, strict the argument of decode_time,
\* start and stop the arguments of get_unary_value
Call(op, low, t, value, t_diff, old, ret) ==
    [op |-> op, low |-> low, t |-> t, value |-> value, t_diff |-> t_diff,
     old |-> old, ret |-> ret, strict |-> FALSE, start |-> 0, stop |-> 0]

NoCall == Call("new", FALSE, 0, None, 0, 0, FALSE)

\* -------------------------------------------------------------- Minute Framer
\* MSFUtils::search_eom_marker, on the second counter sec and channel A buf_a
\* search_eom_marker with an unknown bit taken to match the marker
search_eom_marker_unknown_matches(sec, buf_a, predict) ==
    IF sec < 7 THEN FALSE
    ELSE LET first == sec - 7 + (IF predict THEN 1 ELSE 0)
         IN  \A i \in first .. sec :
                buf_a[i] = None \/ buf_a[i] = Some(MARKER[i - first + 1])

search_eom_marker(sec, buf_a, predict) ==
    IF sec < 7
    THEN FALSE
    ELSE LET first == sec - 7 + (IF predict THEN 1 ELSE 0)
         IN  \A i \in first .. sec :
                ~(buf_a[i] = None \/ buf_a[i] # Some(MARKER[i - first + 1]))

\* MSFUtils::end_of_minute_marker_present
end_of_minute_marker_present(sec, buf_a) == search_eom_marker(sec, buf_a, FALSE)

\* get_minute_length without the negative leap second
get_minute_length_from_59(sec, buf_a) ==
    IF sec \in 59 .. 60 /\ search_eom_marker(sec, buf_a, FALSE) THEN sec + 1
    ELSE IF sec = 59 /\ search_eom_marker(sec, buf_a, TRUE) THEN 61 ELSE 60

\* get_minute_length without the look-ahead to a positive leap second
get_minute_length_without_prediction(sec, buf_a) ==
    IF sec \in 58 .. 60 /\ search_eom_marker(sec, buf_a, FALSE) THEN sec + 1
    ELSE 60

\* MSFUtils::get_minute_length
get_minute_length(sec, buf_a) ==
    IF sec \in 58 .. 60 /\ search_eom_marker(sec, buf_a, FALSE)
    THEN sec + 1
    ELSE IF sec = 59 /\ search_eom_marker(sec, buf_a, TRUE)
         THEN 61
         ELSE 60

\* RadioDateTimeUtils::increase_second(&mut second, new_minute, minute_length):
\* the new second counter and the returned flag
rdt_increase_second(sec, new_min, minute_length) ==
    IF new_min
    THEN [second |-> 0, ret |-> TRUE]
    ELSE IF sec + 1 = minute_length \/ sec + 1 = BIT_BUFFER_SIZE
         THEN [second |-> 0, ret |-> FALSE]
         ELSE [second |-> sec + 1, ret |-> TRUE]

\* ------------------------------------------------------ DateTime accumulator
\* RadioDateTimeUtils of the radio_datetime_utils crate, as far as decode_time
\* uses it: the six calendar fields and the summer time flag, each an Option,
\* and the set of fields whose last push was flagged as a jump. Its counter
\* of running minutes and its leap second field are left out.
RdtFields == {"year", "month", "day", "weekday", "hour", "minute"}

\* RadioDateTimeUtils::new(0)
rdt_new ==
    [year |-> None, month |-> None, day |-> None, weekday |-> None,
     hour |-> None, minute |-> None, dst |-> None, jumps |-> {}]

\* RadioDateTimeUtils::is_valid
rdt_is_valid(rdt) ==
    /\ \A f \in RdtFields : rdt[f] # None
    /\ rdt.dst # None

\* RadioDateTimeUtils::clear_jumps
rdt_clear_jumps(rdt) == [rdt EXCEPT !.jumps = {}]

\* RadioDateTimeUtils::add_minute: nothing happens and false is returned
\* unless the date and time are complete; the carry goes from the minute
\* into the hour, and at midnight into the weekday and the day (the end of
\* the month is beyond the minutes this model decodes).
rdt_add_minute(rdt) ==
    IF ~rdt_is_valid(rdt)
    THEN [rdt |-> rdt, ret |-> FALSE]
    ELSE LET minute == (rdt.minute[1] + 1) % 60
             hour == IF minute = 0 THEN (rdt.hour[1] + 1) % 24 ELSE rdt.hour[1]
             midnight == minute = 0 /\ hour = 0
         IN  [rdt |-> [rdt EXCEPT !.minute = Some(minute),
                                  !.hour = Some(hour),
                                  !.weekday = IF midnight
                                              THEN Some((rdt.weekday[1] + 1) % 7)
                                              ELSE rdt.weekday,
                                  !.day = IF midnight
                                          THEN Some(rdt.day[1] + 1)
                                          ELSE rdt.day],
              ret |-> TRUE]

\* the values RadioDateTimeUtils accepts for a field
rdt_range(field) ==
    CASE field = "year" -> 0 .. 99
      [] field = "month" -> 1 .. 12
      [] field = "day" -> 1 .. 31
      [] field = "weekday" -> 0 .. 6
      [] field = "hour" -> 0 .. 23
      [] field = "minute" -> 0 .. 59

\* RadioDateTimeUtils::set_year, set_month, set_weekday, set_day, set_hour,
\* set_minute: the value is taken when it is known, in range and valid (the
\* day only when year, month and weekday are known), else the field keeps
\* what it had; a jump is flagged when check_jump is set and a known value
\* replaces a different known value.
rdt_set(rdt, field, value, valid, check_jump) ==
    LET take == /\ value # None
                /\ value[1] \in rdt_range(field)
                /\ valid
                /\ field = "day" =>
                       rdt.year # None /\ rdt.month # None /\ rdt.weekday # None
        new == IF take THEN value ELSE rdt[field]
        jump == check_jump /\ new # None /\ rdt[field] # None /\ new # rdt[field]
    IN  [rdt EXCEPT ![field] = new,
                    !.jumps = IF jump THEN @ \cup {field} ELSE @ \ {field}]

\* RadioDateTimeUtils::set_dst: nothing is taken unless both flags are known
rdt_set_dst(rdt, value, announce, check_jump) ==
    IF value = None \/ announce = None
    THEN rdt
    ELSE [rdt EXCEPT !.dst = value]

\* ------------------------------------------------------------------- Init
\* MSFUtils::new()
New ==
    /\ first_minute = TRUE
    /\ new_minute = FALSE
    /\ past_new_minute = FALSE
    /\ new_second = FALSE
    /\ second = 0
    /\ bit_buffer_a = [i \in Slots |-> None]
    /\ bit_buffer_b = [i \in Slots |-> None]
    /\ radio_datetime = rdt_new
    /\ parity_1 = None
    /\ parity_2 = None
    /\ parity_3 = None
    /\ parity_4 = None
    /\ dut1 = None
    /\ before_first_edge = TRUE
    /\ t0 = 0
    /\ old_t_diff = 0
    /\ spike_limit = Ticks(SPIKE_LIMIT)
    /\ panicked = FALSE
    /\ pushed = None
    /\ call = NoCall

\* the driver's count of minutes: one more when the counter leaves a second
\* other than 0 for second 0
Wrapped(sec) == IF second # 0 /\ sec = 0 THEN minutes + 1 ELSE minutes

\* ---------------------------------------------------------------- actions
\* MSFUtils::force_new_minute
ForceNewMinute ==
    /\ ~panicked
    /\ new_minute' = TRUE
    /\ past_new_minute' = FALSE
    /\ call' = Call("force_new_minute", FALSE, 0, None, 0, 0, FALSE)
    /\ UNCHANGED <<first_minute, new_second, second, bufferVars, edgeVars,
                   panicked, driverVars, decodeVars>>

\* force_past_new_minute that leaves new_minute as it is
ForcePastNewMinuteKeepingNewMinute ==
    /\ ~panicked
    /\ past_new_minute' = TRUE
    /\ second' = 0
    /\ bit_buffer_a' = [bit_buffer_a EXCEPT ![0] = Some(TRUE)]
    /\ bit_buffer_b' = [bit_buffer_b EXCEPT ![0] = Some(TRUE)]
    /\ minutes' = Wrapped(0)
    /\ call' = Call("force_past_new_minute", FALSE, 0, None, 0, 0, FALSE)
    /\ UNCHANGED <<first_minute, new_minute, new_second, edgeVars, panicked,
                   edges, spikes, feed_from, frame_length, decodes, decodeVars>>

\* MSFUtils::force_past_new_minute
ForcePastNewMinute ==
    /\ ~panicked
    /\ new_minute' = FALSE
    /\ past_new_minute' = TRUE
    /\ second' = 0
    /\ bit_buffer_a' = [bit_buffer_a EXCEPT ![0] = Some(TRUE)]
    /\ bit_buffer_b' = [bit_buffer_b EXCEPT ![0] = Some(TRUE)]
    /\ minutes' = Wrapped(0)
    /\ call' = Call("force_past_new_minute", FALSE, 0, None, 0, 0, FALSE)
    /\ UNCHANGED <<first_minute, new_second, edgeVars, panicked, edges,
                   spikes, feed_from, frame_length, decodes, decodeVars>>

\* set_current_bit_a that leaves the minute flags as they are
SetCurrentBitAKeepingFlags(value) ==
    /\ ~panicked
    /\ call' = Call("set_current_bit_a", FALSE, 0, value, 0, 0, FALSE)
    /\ bit_buffer_a' = [bit_buffer_a EXCEPT ![second] = value]
    /\ UNCHANGED <<flagVars, second, bit_buffer_b, edgeVars,
                   panicked, driverVars, decodeVars>>

\* MSFUtils::set_current_bit_a
SetCurrentBitA(value) ==
    /\ ~panicked
    /\ call' = Call("set_current_bit_a", FALSE, 0, value, 0, 0, FALSE)
    /\ bit_buffer_a' = [bit_buffer_a EXCEPT ![second] = value]
    /\ new_minute' = FALSE
    /\ past_new_minute' = FALSE
    /\ UNCHANGED <<first_minute, new_second, second, bit_buffer_b, edgeVars,
                   panicked, driverVars, decodeVars>>

\* MSFUtils::set_current_bit_b
SetCurrentBitB(value) ==
    /\ ~panicked
    /\ call' = Call("set_current_bit_b", FALSE, 0, value, 0, 0, FALSE)
    /\ bit_buffer_b' = [bit_buffer_b EXCEPT ![second] = value]
    /\ new_minute' = FALSE
    /\ past_new_minute' = FALSE
    /\ UNCHANGED <<first_minute, new_second, second, bit_buffer_a, edgeVars,
                   panicked, driverVars, decodeVars>>

\* set_spike_limit that takes ACTIVE_0_LIMIT itself as well
SetSpikeLimitInclusive(value) ==
    /\ ~panicked
    /\ spike_limit' = IF value <= Ticks(ACTIVE_0_LIMIT) THEN value ELSE spike_limit
    /\ call' = Call("set_spike_limit", FALSE, value, None, 0, 0, FALSE)
    /\ UNCHANGED <<flagVars, second, bufferVars, before_first_edge, t0,
                   old_t_diff, panicked, driverVars, decodeVars>>

\* MSFUtils::set_spike_limit, value in ticks
SetSpikeLimit(value) ==
    /\ ~panicked
    /\ spike_limit' = IF value < Ticks(ACTIVE_0_LIMIT) THEN value ELSE spike_limit
    /\ call' = Call("set_spike_limit", FALSE, value, None, 0, 0, FALSE)
    /\ UNCHANGED <<flagVars, second, bufferVars, before_first_edge, t0,
                   old_t_diff, panicked, driverVars, decodeVars>>

\* increase_second that consumes new_minute when it resets the counter
IncreaseSecondClearingNewMinute ==
    /\ ~panicked
    /\ LET minute_length == get_minute_length(second, bit_buffer_a)
           r == rdt_increase_second(second, new_minute, minute_length)
       IN  /\ second' = r.second
           /\ minutes' = Wrapped(r.second)
           /\ call' = Call("increase_second", FALSE, 0, None, 0, 0, r.ret)
    /\ new_minute' = FALSE
    /\ UNCHANGED <<first_minute, past_new_minute, new_second, bufferVars,
                   edgeVars, panicked, edges, spikes, feed_from, frame_length,
                   decodes, decodeVars>>

\* increase_second passing false for new_minute
IncreaseSecondWithoutNewMinute ==
    /\ ~panicked
    /\ LET minute_length == get_minute_length(second, bit_buffer_a)
           r == rdt_increase_second(second, FALSE, minute_length)
       IN  /\ second' = r.second
           /\ minutes' = Wrapped(r.second)
           /\ call' = Call("increase_second", FALSE, 0, None, 0, 0, r.ret)
    /\ UNCHANGED <<flagVars, bufferVars, edgeVars, panicked, edges, spikes,
                   feed_from, frame_length, decodes, decodeVars>>

\* increase_second that counts on without wrapping
IncreaseSecondNoWrap ==
    /\ ~panicked
    /\ second' = IF new_minute THEN 0 ELSE second + 1
    /\ minutes' = Wrapped(second')
    /\ call' = Call("increase_second", FALSE, 0, None, 0, 0, TRUE)
    /\ UNCHANGED <<flagVars, bufferVars, edgeVars, panicked, edges, spikes,
                   feed_from, frame_length, decodes, decodeVars>>

\* MSFUtils::increase_second
IncreaseSecond ==
    /\ ~panicked
    /\ LET minute_length == get_minute_length(second, bit_buffer_a)
           r == rdt_increase_second(second, new_minute, minute_length)
       IN  /\ second' = r.second
           /\ minutes' = Wrapped(r.second)
           /\ call' = Call("increase_second", FALSE, 0, None, 0, 0, r.ret)
    /\ UNCHANGED <<flagVars, bufferVars, edgeVars, panicked, edges, spikes,
                   feed_from, frame_length, decodes, decodeVars>>

\* no shift of the bit positions, whatever the length of the minute
leap_offset_nominal(minute_length) == 0

\* decode_time, the shift of the bit positions in a minute of minute_length
\* seconds (lines 334-338)
leap_offset(minute_length) ==
    IF 60 < minute_length THEN 1 ELSE IF 60 = minute_length THEN 0 ELSE -1

\* decode_time, the slots it reads with that shift: DUT1 (lines 367-380), the
\* parity ranges and their parity bits (lines 339-363), the fields (lines
\* 385-460) and the summer time bits (lines 468-469)
decode_slots(offset) ==
    (1 .. 16) \cup ((17 + offset) .. (51 + offset)) \cup ((53 + offset) .. (58 + offset))

\* ------------------------------------------------------------ Field Decoder
\* radio_datetime_helpers::get_parity: None when the parity bit or a bit of
\* start..=stop is None, else the exclusive or of them all
get_parity(buf, start, stop, parity) ==
    IF parity = None \/ \E i \in start .. stop : buf[i] = None
    THEN None
    ELSE LET ones == Cardinality({i \in start .. stop : buf[i] = Some(TRUE)})
                     + (IF parity = Some(TRUE) THEN 1 ELSE 0)
         IN  Some(ones % 2 = 1)

\* the weight of the k-th bit of a BCD value, counted from the least
\* significant one
bcd_weight(k) == <<1, 2, 4, 8, 10, 20, 40, 80>>[k]

RECURSIVE bcd_sum(_, _, _)
\* the weighted sum of the n least significant bits, which go down from
\* position start
bcd_sum(buf, start, n) ==
    IF n = 0 THEN 0
    ELSE bcd_sum(buf, start, n - 1)
         + (IF buf[start - n + 1] = Some(TRUE) THEN bcd_weight(n) ELSE 0)

\* radio_datetime_helpers::get_bcd_value, as decode_time calls it: start is
\* the position of the least significant bit and stop, below it, that of the
\* most significant one. None when a bit is None, when the units exceed 9 or
\* when the value exceeds 99.
get_bcd_value(buf, start, stop) ==
    LET n == start - stop + 1
        units == bcd_sum(buf, start, IF n < 4 THEN n ELSE 4)
        value == bcd_sum(buf, start, n)
    IN  IF \E i \in stop .. start : buf[i] = None THEN None
        ELSE IF units > 9 \/ value > 99 THEN None
        ELSE Some(value)

RECURSIVE unary_loop(_, _, _, _, _)
\* get_unary_value, the loop from position i on, with the sum and the
\* previous bit so far (msf_helpers.rs lines 11-19)
unary_loop(buf, i, stop, sum, old_bit) ==
    IF i > stop THEN Some(sum)
    ELSE IF buf[i] = None THEN None
    ELSE IF buf[i] = Some(TRUE) /\ old_bit = Some(FALSE) THEN None
    ELSE unary_loop(buf, i + 1, stop,
                    sum + (IF buf[i] = Some(TRUE) THEN 1 ELSE 0), buf[i])

\* the unary value of the range without its last position
get_unary_value_exclusive(buf, start, stop) == unary_loop(buf, start, stop - 1, 0, None)

\* msf_helpers::get_unary_value
get_unary_value(buf, start, stop) == unary_loop(buf, start, stop, 0, None)

\* the four parities with the last bit of the year left out of its group
decode_parities_short_year(buf_a, buf_b, offset) ==
    [p1 |-> get_parity(buf_a, 17 + offset, 23 + offset, buf_b[54 + offset]),
     p2 |-> get_parity(buf_a, 25 + offset, 35 + offset, buf_b[55 + offset]),
     p3 |-> get_parity(buf_a, 36 + offset, 38 + offset, buf_b[56 + offset]),
     p4 |-> get_parity(buf_a, 39 + offset, 51 + offset, buf_b[57 + offset])]

\* decode_time, the four parities (lines 340-363)
decode_parities(buf_a, buf_b, offset) ==
    [p1 |-> get_parity(buf_a, 17 + offset, 24 + offset, buf_b[54 + offset]),
     p2 |-> get_parity(buf_a, 25 + offset, 35 + offset, buf_b[55 + offset]),
     p3 |-> get_parity(buf_a, 36 + offset, 38 + offset, buf_b[56 + offset]),
     p4 |-> get_parity(buf_a, 39 + offset, 51 + offset, buf_b[57 + offset])]

\* DUT1 as the difference of the two counts even when both are positive
decode_dut1_difference(buf_b, offset) ==
    LET stop == IF offset = -1 THEN 15 ELSE 16
        dut1p == get_unary_value(buf_b, 1, 8)
        dut1n == get_unary_value(buf_b, 9, stop)
    IN  IF dut1p # None /\ dut1n # None
        THEN Some(dut1p[1] - dut1n[1])
        ELSE None

\* DUT1 with the negative count taken from positions 9..16 whatever the
\* length of the minute
decode_dut1_full_range(buf_b, offset) ==
    LET dut1p == get_unary_value(buf_b, 1, 8)
        dut1n == get_unary_value(buf_b, 9, 16)
    IN  IF dut1p # None /\ dut1n # None
        THEN IF dut1p[1] * dut1n[1] = 0 THEN Some(dut1p[1] - dut1n[1]) ELSE None
        ELSE None

\* decode_time, DUT1 (lines 365-376); bit 16 is dropped in case of a
\* negative leap second
decode_dut1(buf_b, offset) ==
    LET stop == IF offset = -1 THEN 15 ELSE 16
        dut1p == get_unary_value(buf_b, 1, 8)
        dut1n == get_unary_value(buf_b, 9, stop)
    IN  IF dut1p # None /\ dut1n # None
        THEN IF dut1p[1] * dut1n[1] = 0 THEN Some(dut1p[1] - dut1n[1]) ELSE None
        ELSE None

\* strict_ok that does not ask for DUT1
strict_ok_without_dut1(p, d, marker) ==
    /\ p.p1 = Some(TRUE)
    /\ p.p2 = Some(TRUE)
    /\ p.p3 = Some(TRUE)
    /\ p.p4 = Some(TRUE)
    /\ marker

\* decode_time, strict_ok (lines 378-383)
strict_ok(p, d, marker) ==
    /\ p.p1 = Some(TRUE)
    /\ p.p2 = Some(TRUE)
    /\ p.p3 = Some(TRUE)
    /\ p.p4 = Some(TRUE)
    /\ d # None
    /\ marker

\* the validity in relaxed mode with the day depending on the parities of
\* year and month only
relaxed_valid_day_without_weekday(field, p) ==
    CASE field = "year" -> p.p1 = Some(TRUE)
      [] field = "month" -> p.p2 = Some(TRUE)
      [] field = "weekday" -> p.p3 = Some(TRUE)
      [] field = "day" -> p.p1 = Some(TRUE) /\ p.p2 = Some(TRUE)
      [] field = "hour" -> p.p4 = Some(TRUE)
      [] field = "minute" -> p.p4 = Some(TRUE)

\* decode_time, the validity it passes in relaxed mode with each field
\* (lines 394, 407, 420, 433-435, 449, 462)
relaxed_valid(field, p) ==
    CASE field = "year" -> p.p1 = Some(TRUE)
      [] field = "month" -> p.p2 = Some(TRUE)
      [] field = "weekday" -> p.p3 = Some(TRUE)
      [] field = "day" -> p.p1 = Some(TRUE) /\ p.p2 = Some(TRUE) /\ p.p3 = Some(TRUE)
      [] field = "hour" -> p.p4 = Some(TRUE)
      [] field = "minute" -> p.p4 = Some(TRUE)

\* the BCD values with the day read from the positions of hour and minute
field_value_day_late(field, buf_a, offset) ==
    CASE field = "year" -> get_bcd_value(buf_a, 24 + offset, 17 + offset)
      [] field = "month" -> get_bcd_value(buf_a, 29 + offset, 25 + offset)
      [] field = "weekday" -> get_bcd_value(buf_a, 38 + offset, 36 + offset)
      [] field = "day" -> get_bcd_value(buf_a, 44 + offset, 39 + offset)
      [] field = "hour" -> get_bcd_value(buf_a, 44 + offset, 39 + offset)
      [] field = "minute" -> get_bcd_value(buf_a, 51 + offset, 45 + offset)

\* decode_time, the BCD value of each field (lines 386-390, 399-403,
\* 412-416, 425-429, 441-445, 454-458)
field_value(field, buf_a, offset) ==
    CASE field = "year" -> get_bcd_value(buf_a, 24 + offset, 17 + offset)
      [] field = "month" -> get_bcd_value(buf_a, 29 + offset, 25 + offset)
      [] field = "weekday" -> get_bcd_value(buf_a, 38 + offset, 36 + offset)
      [] field = "day" -> get_bcd_value(buf_a, 35 + offset, 30 + offset)
      [] field = "hour" -> get_bcd_value(buf_a, 44 + offset, 39 + offset)
      [] field = "minute" -> get_bcd_value(buf_a, 51 + offset, 45 + offset)

\* decode_time, the arguments of one set_year .. set_minute call
\* (lines 385-465)
field_push(field, buf_a, offset, strict_checks, ok, p, track) ==
    [value |-> field_value(field, buf_a, offset),
     valid |-> IF strict_checks THEN ok ELSE relaxed_valid(field, p),
     track_jump |-> track]

\* decode_time, the order of its set_year .. set_minute calls
PushOrder == <<"year", "month", "weekday", "day", "hour", "minute">>

RECURSIVE push_fields(_, _, _)
\* the accumulator after the first n pushes of pushes
push_fields(rdt, pushes, n) ==
    IF n = 0 THEN rdt
    ELSE LET f == PushOrder[n]
         IN  rdt_set(push_fields(rdt, pushes, n - 1), f, pushes[f].value,
                     pushes[f].valid, pushes[f].track_jump)

\* ------------------------------------------------------------ Edge Classifier
\* radio_datetime_helpers::time_diff(t0, t1): the time from t0 to t1, the u32
\* counter having wrapped when t1 < t0 (u32::MAX - t0 + t1 + 1, in ticks)
time_diff(a, b) ==
    IF b = a
    THEN 0
    ELSE IF b > a
         THEN b - a
         ELSE IF a > 0 THEN U32Ticks - a + b ELSE 0

\* What the classification of an edge leaves: the second counter, the two
\* channels and the flags handle_new_edge assigns.
EdgeResult(sec, buf_a, buf_b, new_min, past_new_min, new_sec) ==
    [second |-> sec, a |-> buf_a, b |-> buf_b, new_minute |-> new_min,
     past_new_minute |-> past_new_min, new_second |-> new_sec]

\* bit_buffer[sec] = value
Put(buf, sec, value) == [buf EXCEPT ![sec] = value]

\* the short active part without the case of a second short active part
short_active_no_upgrade(old, sec, buf_a, buf_b) ==
    LET known == old > Ticks(1000000 - MINUTE_LIMIT)
        a == IF known THEN Put(buf_a, sec, Some(FALSE)) ELSE buf_a
        b == IF known THEN Put(buf_b, sec, Some(FALSE)) ELSE buf_b
    IN  EdgeResult(sec, a, b, end_of_minute_marker_present(sec, a), FALSE, FALSE)

\* the short active part that never looks for the end-of-minute marker
short_active_without_marker(old, sec, buf_a, buf_b) ==
    LET a == IF old > 0 /\ old < Ticks(ACTIVE_0_LIMIT)
             THEN Put(buf_a, sec, Some(FALSE))
             ELSE IF old > Ticks(1000000 - MINUTE_LIMIT)
                  THEN Put(buf_a, sec, Some(FALSE))
                  ELSE buf_a
        b == IF old > 0 /\ old < Ticks(ACTIVE_0_LIMIT)
             THEN Put(buf_b, sec, Some(TRUE))
             ELSE IF old > Ticks(1000000 - MINUTE_LIMIT)
                  THEN Put(buf_b, sec, Some(FALSE))
                  ELSE buf_b
    IN  EdgeResult(sec, a, b, FALSE, FALSE, FALSE)

\* handle_new_edge, the falling edge of a short active part (lines 229-236)
short_active(old, sec, buf_a, buf_b) ==
    LET a == IF old > 0 /\ old < Ticks(ACTIVE_0_LIMIT)
             THEN Put(buf_a, sec, Some(FALSE))
             ELSE IF old > Ticks(1000000 - MINUTE_LIMIT)
                  THEN Put(buf_a, sec, Some(FALSE))
                  ELSE buf_a
        b == IF old > 0 /\ old < Ticks(ACTIVE_0_LIMIT)
             THEN Put(buf_b, sec, Some(TRUE))
             ELSE IF old > Ticks(1000000 - MINUTE_LIMIT)
                  THEN Put(buf_b, sec, Some(FALSE))
                  ELSE buf_b
    IN  EdgeResult(sec, a, b, end_of_minute_marker_present(sec, a), FALSE, FALSE)

\* the bit pair (1,0) with the write to channel B left out
bit_1_0_keeps_b(sec, buf_a, buf_b) ==
    EdgeResult(sec, Put(buf_a, sec, Some(TRUE)), buf_b, FALSE, FALSE, FALSE)

\* handle_new_edge, the bit pair (1,0) (lines 238-239)
bit_1_0(sec, buf_a, buf_b) ==
    EdgeResult(sec, Put(buf_a, sec, Some(TRUE)), Put(buf_b, sec, Some(FALSE)),
               FALSE, FALSE, FALSE)

\* handle_new_edge, the bit pair (1,1) (lines 241-242)
bit_1_1(sec, buf_a, buf_b) ==
    EdgeResult(sec, Put(buf_a, sec, Some(TRUE)), Put(buf_b, sec, Some(TRUE)),
               FALSE, FALSE, FALSE)

\* the begin-of-minute marker without the reset of the second counter
minute_marker_keeps_second(sec, buf_a, buf_b) ==
    EdgeResult(sec, Put(buf_a, sec, Some(TRUE)), Put(buf_b, sec, Some(TRUE)),
               FALSE, TRUE, FALSE)

\* handle_new_edge, the begin-of-minute marker (lines 244-247)
minute_marker(sec, buf_a, buf_b) ==
    EdgeResult(0, Put(buf_a, 0, Some(TRUE)), Put(buf_b, 0, Some(TRUE)),
               FALSE, TRUE, FALSE)

\* the active runaway that clears channel A only
active_runaway_channel_a_only(sec, buf_a, buf_b) ==
    EdgeResult(sec, Put(buf_a, sec, None), buf_b, FALSE, FALSE, FALSE)

\* handle_new_edge, active runaway or first low edge (lines 250-251)
active_runaway(sec, buf_a, buf_b) ==
    EdgeResult(sec, Put(buf_a, sec, None), Put(buf_b, sec, None),
               FALSE, FALSE, FALSE)

\* the condition on the previous interval with the limit of the short
\* active part (line 232) in place of the one of lines 237, 240 and 243
long_passive_minute_limit(old) == old > Ticks(1000000 - MINUTE_LIMIT)

\* the condition on the previous interval in lines 237, 240 and 243
long_passive(old) == old > Ticks(1000000 - ACTIVE_AB_LIMIT)

\* handle_new_edge, a falling edge that is no spike (lines 227-252), for the
\* interval t_diff and the previous interval old
low_edge(t_diff, old, sec, buf_a, buf_b) ==
    IF t_diff < Ticks(ACTIVE_0_LIMIT)
    THEN short_active(old, sec, buf_a, buf_b)
    ELSE IF t_diff < Ticks(ACTIVE_A_LIMIT) /\ long_passive(old)
    THEN bit_1_0(sec, buf_a, buf_b)
    ELSE IF t_diff < Ticks(ACTIVE_AB_LIMIT) /\ long_passive(old)
    THEN bit_1_1(sec, buf_a, buf_b)
    ELSE IF t_diff < Ticks(MINUTE_LIMIT) /\ long_passive(old)
    THEN minute_marker(sec, buf_a, buf_b)
    ELSE active_runaway(sec, buf_a, buf_b)

\* the rising edge with new_second also set at exactly 450000 us
high_edge_inclusive(t_diff, sec, buf_a, buf_b, new_sec) ==
    IF t_diff < Ticks(PASSIVE_RUNAWAY)
    THEN EdgeResult(sec, buf_a, buf_b, FALSE, FALSE,
                    t_diff >= Ticks(1000000 - MINUTE_LIMIT))
    ELSE EdgeResult(sec, Put(buf_a, sec, None), Put(buf_b, sec, None),
                    FALSE, FALSE, new_sec)

\* handle_new_edge, a rising edge that is no spike (lines 253-258); the
\* minute flags are the ones cleared in lines 223-224
high_edge(t_diff, sec, buf_a, buf_b, new_sec) ==
    IF t_diff < Ticks(PASSIVE_RUNAWAY)
    THEN EdgeResult(sec, buf_a, buf_b, FALSE, FALSE,
                    t_diff > Ticks(1000000 - MINUTE_LIMIT))
    ELSE EdgeResult(sec, Put(buf_a, sec, None), Put(buf_b, sec, None),
                    FALSE, FALSE, new_sec)

\* the spike branch leaving t0 where it was
spike_t0_stale(t, t_diff) == t

\* handle_new_edge, the spike branch (line 220): self.t0 += t_diff
spike_t0(t, t_diff) == (t + t_diff) % U32Ticks

\* the first-edge test that takes no edge for the first one
is_first_edge_never(before) == FALSE

\* handle_new_edge, the first-edge test (line 212)
is_first_edge(before) == before

\* MSFUtils::handle_new_edge, t in ticks
HandleNewEdge(is_low_edge, t) ==
    /\ ~panicked
    /\ UNCHANGED <<feed_from, frame_length, decodes, decodeVars>>
    /\ IF is_first_edge(before_first_edge)
       THEN /\ before_first_edge' = FALSE
            /\ t0' = t
            /\ edges' = edges + 1
            /\ call' = Call("handle_new_edge", is_low_edge, t, None, 0, old_t_diff, FALSE)
            /\ UNCHANGED <<flagVars, second, bufferVars, old_t_diff, spike_limit,
                           panicked, minutes, spikes>>
       ELSE LET t_diff == time_diff(t0, t)
            IN  /\ call' = Call("handle_new_edge", is_low_edge, t, None, t_diff,
                                old_t_diff, FALSE)
                /\ IF t_diff < spike_limit
                   THEN \* self.t0 += t_diff: a u32 addition, which wraps, or
                        \* panics in a build with overflow checks
                        /\ \/ /\ t0' = spike_t0(t0, t_diff)
                              /\ UNCHANGED panicked
                           \/ /\ t0 + t_diff >= U32Ticks
                              /\ panicked' = TRUE
                              /\ UNCHANGED t0
                        /\ spikes' = spikes + 1
                        /\ UNCHANGED <<flagVars, second, bufferVars,
                                       before_first_edge, old_t_diff,
                                       spike_limit, minutes, edges>>
                   ELSE /\ t0' = t
                        /\ old_t_diff' = t_diff
                        /\ edges' = edges + 1
                        /\ LET r == IF is_low_edge
                                    THEN low_edge(t_diff, old_t_diff, second,
                                                  bit_buffer_a, bit_buffer_b)
                                    ELSE high_edge(t_diff, second, bit_buffer_a,
                                                   bit_buffer_b, new_second)
                           IN  /\ new_second' = r.new_second
                               /\ new_minute' = r.new_minute
                               /\ past_new_minute' = r.past_new_minute
                               /\ second' = r.second
                               /\ bit_buffer_a' = r.a
                               /\ bit_buffer_b' = r.b
                               /\ minutes' = Wrapped(r.second)
                        /\ UNCHANGED <<first_minute, before_first_edge,
                                       spike_limit, panicked, spikes>>

\* jumps tracked in every decode
track_jump_unconditional(added_minute, first) == TRUE

\* decode_time, the jump tracking passed to every setter (lines 396 .. 470)
track_jump(added_minute, first) == added_minute /\ ~first

\* the DST flags withheld when the strict checks fail
dst_push_gated(buf_b, offset, strict_checks, ok, track) ==
    [value |-> IF strict_checks /\ ~ok THEN None ELSE buf_b[58 + offset],
     announce |-> IF strict_checks /\ ~ok THEN None ELSE buf_b[53 + offset],
     track_jump |-> track]

\* decode_time, the arguments of set_dst (lines 467-471)
dst_push(buf_b, offset, strict_checks, ok, track) ==
    [value |-> buf_b[58 + offset],
     announce |-> buf_b[53 + offset],
     track_jump |-> track]

\* the `call` of a decode_time call
CallDecode(strict_checks) ==
    [Call("decode_time", FALSE, 0, None, 0, 0, FALSE) EXCEPT !.strict = strict_checks]

\* add_minute called whatever first_minute is
decode_add_minute_always(first, cleared) == rdt_add_minute(cleared)

\* add_minute never called
decode_add_minute_never(first, cleared) == [rdt |-> cleared, ret |-> FALSE]

\* decode_time, the call of add_minute on the accumulator whose jumps were
\* cleared (lines 329-332): the accumulator and added_minute
decode_add_minute(first, cleared) ==
    IF ~first
    THEN rdt_add_minute(cleared)
    ELSE [rdt |-> cleared, ret |-> FALSE]

\* the minute taken as complete when the counter equals its length
at_minute_boundary_late(sec, minute_length) == sec = minute_length

\* every second taken as the end of the minute
at_minute_boundary_always(sec, minute_length) == TRUE

\* decode_time, the test for the end of the minute (line 333)
at_minute_boundary(sec, minute_length) == sec + 1 = minute_length

\* the gate open in relaxed mode whatever DUT1 is
decode_gate_relaxed_open(strict_checks, ok, d) == strict_checks => ok

\* decode_time, the policy gate for clearing first_minute (lines 473-477)
decode_gate(strict_checks, ok, d) == IF strict_checks THEN ok ELSE d # None

\* decode_time assigning first_minute at every decode of a minute instead
\* of only clearing it
DecodeTimeUnlatched(strict_checks) ==
    /\ ~panicked
    /\ call' = CallDecode(strict_checks)
    /\ LET minute_length == get_minute_length(second, bit_buffer_a)
           cleared == rdt_clear_jumps(radio_datetime)
           added == decode_add_minute(first_minute, cleared)
       IN  IF at_minute_boundary(second, minute_length)
           THEN \E offset \in {leap_offset(minute_length)} :
                \E p \in {decode_parities(bit_buffer_a, bit_buffer_b, offset)} :
                \E d \in {decode_dut1(bit_buffer_b, offset)} :
                \E ok \in {strict_ok(p, d, end_of_minute_marker_present(second, bit_buffer_a))} :
                \E track \in {track_jump(added.ret, first_minute)} :
                \E pushes \in {[f \in RdtFields |->
                                   field_push(f, bit_buffer_a, offset, strict_checks,
                                              ok, p, track)]} :
                \E dst \in {dst_push(bit_buffer_b, offset, strict_checks, ok, track)} :
                \E rdt \in {rdt_set_dst(push_fields(added.rdt, pushes, 6),
                                         dst.value, dst.announce, dst.track_jump)} :
                    /\ parity_1' = p.p1
                    /\ parity_2' = p.p2
                    /\ parity_3' = p.p3
                    /\ parity_4' = p.p4
                    /\ dut1' = d
                    /\ pushed' = Some([fields |-> pushes, dst |-> dst])
                    /\ radio_datetime' = rdt
                    /\ first_minute' =
                           IF decode_gate(strict_checks, ok, d) /\ rdt_is_valid(rdt)
                           THEN FALSE
                           ELSE TRUE
           ELSE /\ radio_datetime' = added.rdt
                /\ pushed' = None
                /\ UNCHANGED <<first_minute, parity_1, parity_2, parity_3,
                               parity_4, dut1>>
    /\ decodes' = IF first_minute /\ pushed' = None THEN decodes ELSE decodes + 1
    /\ UNCHANGED <<new_minute, past_new_minute, new_second, second, bufferVars,
                   edgeVars, panicked, minutes, edges, spikes, feed_from,
                   frame_length>>

\* MSFUtils::decode_time
DecodeTime(strict_checks) ==
    /\ ~panicked
    /\ call' = CallDecode(strict_checks)
    /\ LET minute_length == get_minute_length(second, bit_buffer_a)
           cleared == rdt_clear_jumps(radio_datetime)
           added == decode_add_minute(first_minute, cleared)
       IN  IF at_minute_boundary(second, minute_length)
           THEN \E offset \in {leap_offset(minute_length)} :
                \E p \in {decode_parities(bit_buffer_a, bit_buffer_b, offset)} :
                \E d \in {decode_dut1(bit_buffer_b, offset)} :
                \E ok \in {strict_ok(p, d, end_of_minute_marker_present(second, bit_buffer_a))} :
                \E track \in {track_jump(added.ret, first_minute)} :
                \E pushes \in {[f \in RdtFields |->
                                   field_push(f, bit_buffer_a, offset, strict_checks,
                                              ok, p, track)]} :
                \E dst \in {dst_push(bit_buffer_b, offset, strict_checks, ok, track)} :
                \E rdt \in {rdt_set_dst(push_fields(added.rdt, pushes, 6),
                                         dst.value, dst.announce, dst.track_jump)} :
                    /\ parity_1' = p.p1
                    /\ parity_2' = p.p2
                    /\ parity_3' = p.p3
                    /\ parity_4' = p.p4
                    /\ dut1' = d
                    /\ pushed' = Some([fields |-> pushes, dst |-> dst])
                    /\ radio_datetime' = rdt
                    /\ first_minute' =
                           IF decode_gate(strict_checks, ok, d) /\ rdt_is_valid(rdt)
                           THEN FALSE
                           ELSE first_minute
           ELSE /\ radio_datetime' = added.rdt
                /\ pushed' = None
                /\ UNCHANGED <<first_minute, parity_1, parity_2, parity_3,
                               parity_4, dut1>>
    /\ decodes' = IF first_minute /\ pushed' = None THEN decodes ELSE decodes + 1
    /\ UNCHANGED <<new_minute, past_new_minute, new_second, second, bufferVars,
                   edgeVars, panicked, minutes, edges, spikes, feed_from,
                   frame_length>>

\* ----------------------------------------------------------------- driver
\* Bounds of the runs explored.
MaxFrameEdges == 2

MaxHoles == 1

MaxEdges == 3

MaxSecond == 1

MaxTrainEdges == 3

MaxSpikes == 2

\* The driver of Spec feeds the bits of the end of a minute: 10 seconds from
\* second feed_from on. From second 51 on these are the seconds where the
\* end-of-minute marker of a minute of 59, 60 or 61 seconds lies (slots
\* 51..58, 52..59 or 53..60); from second 0 on, the first seconds in which a
\* marker can be found at all.
FeedStarts == {0, 51}

Window == feed_from .. (feed_from + 9)

\* the run covers one minute: it ends when the second counter goes back to 0
\* or leaves the window behind
Running == minutes = 0 /\ second <= feed_from + 10

\* The channel A bits the driver passes to set_current_bit_a in a second: the
\* bits of an end-of-minute marker that starts in the first, second or third
\* second of the window, the bits that break it, and Unknown.
SignalA(sec) ==
    IF ~Running \/ sec \notin Window THEN {}
    ELSE IF sec - feed_from = 0 THEN {None, Some(FALSE)}
    ELSE IF sec - feed_from \in 3 .. 6 THEN {None, Some(TRUE)}
    ELSE OptionBool

\* the channel B bits the driver passes to set_current_bit_b in a second
SignalB(sec) ==
    IF Running /\ sec - feed_from = 8 THEN {None, Some(TRUE)} ELSE {}

\* the seconds in which the driver of Spec feeds edges: the last seconds of
\* the minute
EdgeWindow == IF feed_from = 0 THEN {} ELSE (feed_from + 7) .. (feed_from + 9)

\* the intervals between two edges the driver of Spec feeds, in ticks
FrameDeltas == {Ticks(100000), Ticks(500000), Ticks(900000)}

\* the bits of the window the driver has left Unknown in the seconds gone by
Holes(sec, buf_a) == Cardinality({i \in Window : i < sec /\ buf_a[i] = None})

Init ==
    /\ New
    /\ minutes = 0
    /\ edges = 0
    /\ spikes = 0
    /\ feed_from \in FeedStarts
    /\ frame_length = 60
    /\ decodes = 0

Next ==
    \/ Running /\ ForceNewMinute
    \/ Running /\ ForcePastNewMinute
    \/ \E v \in SignalA(second) :
          SetCurrentBitA(v) /\ Holes(second', bit_buffer_a') <= MaxHoles
    \/ \E v \in SignalB(second) : SetCurrentBitB(v)
    \/ Running /\ IncreaseSecond /\ Holes(second', bit_buffer_a') <= MaxHoles
    \/ \E low \in BOOLEAN, d \in FrameDeltas :
          /\ Running
          /\ second \in EdgeWindow
          /\ edges < MaxFrameEdges
          /\ HandleNewEdge(low, IF before_first_edge THEN 0 ELSE (t0 + d) % U32Ticks)
          /\ Holes(second', bit_buffer_a') <= MaxHoles

Spec == Init /\ [][Next]_vars

\* The driver of SpecEdge feeds a new decoder, in its first seconds, edges
\* that are no spikes: the first edge and the edges of MaxEdges - 1 intervals.
\* The intervals between two edges, in ticks: each threshold of the classifier
\* and the value one tick below or above it.
EdgeDeltas ==
    {Ticks(SPIKE_LIMIT),
     Ticks(ACTIVE_0_LIMIT) - 1, Ticks(ACTIVE_0_LIMIT),
     Ticks(ACTIVE_A_LIMIT) - 1, Ticks(ACTIVE_A_LIMIT),
     Ticks(ACTIVE_AB_LIMIT) - 1, Ticks(ACTIVE_AB_LIMIT),
     Ticks(1000000 - MINUTE_LIMIT), Ticks(1000000 - MINUTE_LIMIT) + 1,
     Ticks(MINUTE_LIMIT) - 1, Ticks(MINUTE_LIMIT),
     Ticks(1000000 - ACTIVE_AB_LIMIT), Ticks(1000000 - ACTIVE_AB_LIMIT) + 1,
     Ticks(PASSIVE_RUNAWAY) - 1, Ticks(PASSIVE_RUNAWAY)}

InitEdge ==
    /\ New
    /\ minutes = 0
    /\ edges = 0
    /\ spikes = 0
    /\ feed_from = 0
    /\ frame_length = 60
    /\ decodes = 0

NextEdge ==
    \/ before_first_edge /\ minutes = 0 /\ second < MaxSecond /\ IncreaseSecond
    \/ before_first_edge /\ SetCurrentBitA(Some(FALSE))
    \/ before_first_edge /\ SetCurrentBitB(Some(TRUE))
    \/ edges < MaxEdges /\ ForceNewMinute
    \/ edges < MaxEdges /\ ForcePastNewMinute
    \/ \E low \in BOOLEAN : before_first_edge /\ HandleNewEdge(low, 0)
    \/ \E low \in BOOLEAN, d \in EdgeDeltas :
          /\ ~before_first_edge
          /\ edges < MaxEdges
          /\ HandleNewEdge(low, (t0 + d) % U32Ticks)

SpecEdge == InitEdge /\ [][NextEdge]_vars

\* The driver of SpecSpike feeds a new decoder short and long intervals: up
\* to MaxSpikes edges that are ignored as spikes, and the first edge and the
\* edges of MaxTrainEdges - 1 intervals that are classified.
\* Between the edges it may raise either minute flag with force_new_minute
\* or force_past_new_minute.
\* the time stamp of the first edge: 0, or 20 ms before the u32 counter wraps
FirstStamps == {0, U32Ticks - Ticks(20000)}

\* the intervals between two edges, in ticks
TrainDeltas == {Ticks(10000), Ticks(20000), Ticks(200000), Ticks(900000)}

\* the limits the driver passes to set_spike_limit, in ticks
SpikeLimits == {Ticks(20000), Ticks(ACTIVE_0_LIMIT) - 1, Ticks(ACTIVE_0_LIMIT)}

NextSpike ==
    \/ \E v \in SpikeLimits : before_first_edge /\ SetSpikeLimit(v)
    \/ \E low \in BOOLEAN, t \in FirstStamps :
          before_first_edge /\ HandleNewEdge(low, t)
    \/ \E low \in BOOLEAN, d \in TrainDeltas :
          /\ ~before_first_edge
          /\ HandleNewEdge(low, (t0 + d) % U32Ticks)
          /\ edges' <= MaxTrainEdges
          /\ spikes' <= MaxSpikes
    \/ ~before_first_edge /\ ~new_minute /\ ForceNewMinute
    \/ ~before_first_edge /\ ~past_new_minute /\ ForcePastNewMinute

SpecSpike == InitEdge /\ [][NextSpike]_vars

\* ------------------------------------------- driver of the Field Decoder
\* const BIT_BUFFER_A of the tests: 2022-10-23, Saturday, 14:58
BIT_BUFFER_A ==
    <<TRUE,
      FALSE, FALSE, FALSE, FALSE, FALSE, FALSE, FALSE, FALSE,
      FALSE, FALSE, FALSE, FALSE, FALSE, FALSE, FALSE, FALSE,
      FALSE, FALSE, TRUE, FALSE, FALSE, FALSE, TRUE, FALSE,
      TRUE, FALSE, FALSE, FALSE, FALSE,
      TRUE, FALSE, FALSE, FALSE, TRUE, TRUE,
      TRUE, TRUE, FALSE,
      FALSE, TRUE, FALSE, TRUE, FALSE, FALSE,
      TRUE, FALSE, TRUE, TRUE, FALSE, FALSE, FALSE,
      FALSE, TRUE, TRUE, TRUE, TRUE, TRUE, TRUE, FALSE>>

\* const BIT_BUFFER_B of the tests: DUT1 -2, summer time active
BIT_BUFFER_B ==
    <<TRUE,
      FALSE, FALSE, FALSE, FALSE, FALSE, FALSE, FALSE, FALSE,
      TRUE, TRUE, FALSE, FALSE, FALSE, FALSE, FALSE, FALSE,
      FALSE, FALSE, FALSE, FALSE, FALSE, FALSE, FALSE, FALSE,
      FALSE, FALSE, FALSE, FALSE, FALSE, FALSE, FALSE, FALSE,
      FALSE, FALSE, FALSE, FALSE, FALSE, FALSE, FALSE, FALSE,
      FALSE, FALSE, FALSE, FALSE, FALSE, FALSE, FALSE, FALSE,
      FALSE, FALSE, FALSE, FALSE,
      FALSE,
      TRUE,
      TRUE,
      TRUE,
      FALSE,
      TRUE,
      FALSE>>

\* how many slots of the frame may differ from the broadcast, and how many
\* decode_time calls are made
MaxDistortions == 1

MaxDecodes == 2

\* the lengths of the minutes fed
FrameLengths == {59, 60, 61}

\* The bits that are broadcast: those of the tests for 14:58, or, when the
\* last bit of the minute was received as a one in a minute of 60 seconds,
\* those for 14:59, which differ in that bit and in the parity bit of the
\* time.
SentA ==
    IF frame_length = 60 /\ bit_buffer_a[51] = Some(TRUE)
    THEN [BIT_BUFFER_A EXCEPT ![52] = TRUE]
    ELSE BIT_BUFFER_A

SentB ==
    IF frame_length = 60 /\ bit_buffer_a[51] = Some(TRUE)
    THEN [BIT_BUFFER_B EXCEPT ![58] = ~@]
    ELSE BIT_BUFFER_B

\* What the frame of len seconds holds in slot i for the broadcast bits: for
\* 59 seconds position 16 is deleted, for 61 seconds an unknown slot is
\* inserted at 17 (as in tests test_decode_time_complete_minute_ok and
\* .._negative_leap_second, .._positive_leap_second).
Frame(bits, len, i) ==
    IF len = 59
    THEN IF i <= 15 THEN Some(bits[i + 1])
         ELSE IF i <= 58 THEN Some(bits[i + 2]) ELSE None
    ELSE IF len = 61
    THEN IF i <= 16 THEN Some(bits[i + 1])
         ELSE IF i = 17 THEN None
         ELSE IF i <= 60 THEN Some(bits[i]) ELSE None
    ELSE IF i <= 59 THEN Some(bits[i + 1]) ELSE None

\* the positions of the 60-second frame where the driver distorts channel A
\* and channel B
DistortA == {17, 24, 31, 37, 48, 59}

DistortB == {1, 9, 16, 17, 54, 55, 56, 57, 58}

\* the slot of position p of the 60-second frame in the frame of len seconds
SlotOf(p, len) == IF p >= 17 THEN p + (len - 60) ELSE p

DistortSlots(positions, len) ==
    {SlotOf(p, len) : p \in {q \in positions : ~(len = 59 /\ q = 16)}}

\* the slots before upto that differ from the frame; only the slots of
\* DistortA and DistortB ever do
Distorted(upto, buf_a, buf_b) ==
    {<<"a", i>> : i \in {j \in DistortSlots(DistortA, frame_length) :
                            j < upto /\ buf_a[j] # Frame(SentA, frame_length, j)}}
    \cup {<<"b", i>> : i \in {j \in DistortSlots(DistortB, frame_length) :
                                j < upto /\ buf_b[j] # Frame(SentB, frame_length, j)}}

\* the slot before upto holds the bits of the frame or an allowed
\* distortion, and the distortions are few
FedOk(upto) ==
    /\ \/ bit_buffer_a[upto - 1] = Frame(SentA, frame_length, upto - 1)
       \/ (upto - 1) \in DistortSlots(DistortA, frame_length)
    /\ \/ bit_buffer_b[upto - 1] = Frame(SentB, frame_length, upto - 1)
       \/ (upto - 1) \in DistortSlots(DistortB, frame_length)
    /\ Cardinality(Distorted(upto, bit_buffer_a, bit_buffer_b)) <= MaxDistortions

Feed(bits, positions) ==
    LET bit == Frame(bits, frame_length, second)
    IN  IF bit = None THEN {}
        ELSE {bit} \cup (IF /\ second \in DistortSlots(positions, frame_length)
                            /\ Cardinality(Distorted(second, bit_buffer_a,
                                                     bit_buffer_b)) < MaxDistortions
                         THEN {Some(~bit[1])}
                         ELSE {})

\* the seconds at which the driver calls decode_time
DecodeSeconds == {0, 42} \cup (58 .. 61)

InitDecode ==
    /\ New
    /\ minutes = 0
    /\ edges = 0
    /\ spikes = 0
    /\ feed_from = 0
    /\ frame_length \in FrameLengths
    /\ decodes = 0

\* A minute was decoded and cleared first_minute.
Decoded ==
    /\ ~first_minute
    /\ minutes = 0

\* The minute after a nominal minute of 60 seconds that cleared first_minute:
\* the buffers still hold the frame, and the DUT1 bits may be received anew.
SecondMinute ==
    /\ minutes = 1
    /\ ~first_minute
    /\ edges = 0
    /\ decodes = 1
    /\ ~new_minute /\ ~past_new_minute
    /\ frame_length = 60
    /\ FedOk(60)

\* Feeding: channel A, then channel B, then the tick, for each second of the
\* frame (of 14:58 or, from second 51 of an undistorted minute of 60 seconds
\* on, of 14:59); then decode_time; after first_minute was cleared, every other
\* operation as well; and a second minute in which the DUT1 bits change.
NextDecode ==
    \/ \E v \in Feed(SentA, DistortA) :
          /\ first_minute /\ minutes = 0 /\ decodes = 0
          /\ bit_buffer_a[second] = None /\ bit_buffer_b[second] = None
          /\ SetCurrentBitA(v)
    \/ /\ first_minute /\ minutes = 0 /\ decodes = 0
       /\ frame_length = 60 /\ second = 51
       /\ bit_buffer_a[second] = None /\ bit_buffer_b[second] = None
       /\ Distorted(second, bit_buffer_a, bit_buffer_b) = {}
       /\ SetCurrentBitA(Some(TRUE))
    \/ \E v \in Feed(SentB, DistortB) :
          /\ first_minute /\ minutes = 0 /\ decodes = 0
          /\ bit_buffer_b[second] = None
          /\ SetCurrentBitB(v)
    \/ /\ minutes = 0
       /\ FedOk(second + 1)
       /\ IncreaseSecond
    \/ \E strict_checks \in BOOLEAN :
          /\ decodes < MaxDecodes
          /\ second \in DecodeSeconds
          /\ minutes = 0 => FedOk(second + 1)
          /\ minutes = 1 => second = 59
          /\ DecodeTime(strict_checks)
    \/ Decoded /\ ForceNewMinute
    \/ Decoded /\ ForcePastNewMinute
    \/ \E v \in OptionBool : Decoded /\ SetCurrentBitA(v)
    \/ \E low \in BOOLEAN, d \in FrameDeltas :
          /\ Decoded /\ edges < MaxFrameEdges
          /\ HandleNewEdge(low, IF before_first_edge THEN 0 ELSE (t0 + d) % U32Ticks)
    \/ /\ SecondMinute
       /\ second < 59
       /\ IncreaseSecond
    \/ \E v \in OptionBool :
          /\ SecondMinute
          /\ second \in {1, 9, 16}
          /\ bit_buffer_b[second] = Frame(SentB, frame_length, second)
          /\ Cardinality(Distorted(60, bit_buffer_a, bit_buffer_b)) < MaxDistortions
          /\ SetCurrentBitB(v)

SpecDecode == InitDecode /\ [][NextDecode]_vars

\* ------------------------------------------- the unary decoder on its own
\* Positions of channel B that get a bit and are read as a unary value.
MaxUnaryBits == 4

\* msf_helpers::get_unary_value applied to channel B; the result is kept
\* in call.value
GetUnaryValue(start, stop) ==
    /\ ~panicked
    /\ call' = [Call("get_unary_value", FALSE, 0,
                     get_unary_value(bit_buffer_b, start, stop), 0, 0, FALSE)
                EXCEPT !.start = start, !.stop = stop]
    /\ UNCHANGED <<flagVars, second, bufferVars, edgeVars, panicked,
                   decodeVars, driverVars>>

InitUnary ==
    /\ New
    /\ minutes = 0
    /\ edges = 0
    /\ spikes = 0
    /\ feed_from = 0
    /\ frame_length = 60
    /\ decodes = 0

\* Channel B is filled second by second with any bits; any range of the
\* filled part and its surroundings is decoded.
NextUnary ==
    \/ \E v \in OptionBool : second < MaxUnaryBits /\ SetCurrentBitB(v)
    \/ second < MaxUnaryBits - 1 /\ IncreaseSecond
    \/ \E start \in 0 .. (MaxUnaryBits - 1) : \E stop \in start .. (MaxUnaryBits - 1) :
          GetUnaryValue(start, stop)

SpecUnary == InitUnary /\ [][NextUnary]_vars

\* ------------------------------------------------- the queries of the framer
\* MSFUtils::get_minute_length, a method on &self; the result is kept in
\* call.value
GetMinuteLength ==
    /\ ~panicked
    /\ call' = Call("get_minute_length", FALSE, 0,
                    Some(get_minute_length(second, bit_buffer_a)), 0, 0, FALSE)
    /\ UNCHANGED <<flagVars, second, bufferVars, edgeVars, panicked,
                   decodeVars, driverVars>>

\* end_of_minute_marker_present that latches its result in new_minute
EndOfMinuteMarkerPresentLatching ==
    /\ ~panicked
    /\ call' = Call("end_of_minute_marker_present", FALSE, 0, None, 0, 0,
                    end_of_minute_marker_present(second, bit_buffer_a))
    /\ new_minute' = end_of_minute_marker_present(second, bit_buffer_a)
    /\ UNCHANGED <<first_minute, past_new_minute, new_second, second,
                   bufferVars, edgeVars, panicked, decodeVars, driverVars>>

\* MSFUtils::end_of_minute_marker_present, a method on &self; the result is
\* kept in call.ret
EndOfMinuteMarkerPresent ==
    /\ ~panicked
    /\ call' = Call("end_of_minute_marker_present", FALSE, 0, None, 0, 0,
                    end_of_minute_marker_present(second, bit_buffer_a))
    /\ UNCHANGED <<flagVars, second, bufferVars, edgeVars, panicked,
                   decodeVars, driverVars>>

InitQuery ==
    /\ New
    /\ minutes = 0
    /\ edges = 0
    /\ spikes = 0
    /\ feed_from = 51
    /\ frame_length = 60
    /\ decodes = 0

\* The last seconds of a minute with the bits of Spec, the queries being
\* made at any moment.
NextQuery ==
    \/ \E v \in SignalA(second) :
          SetCurrentBitA(v) /\ Holes(second', bit_buffer_a') <= MaxHoles
    \/ Running /\ IncreaseSecond /\ Holes(second', bit_buffer_a') <= MaxHoles
    \/ Running /\ ForceNewMinute
    \/ Running /\ GetMinuteLength
    \/ Running /\ EndOfMinuteMarkerPresent

SpecQuery == InitQuery /\ [][NextQuery]_vars

\* ------------------------------------------------- driver of the bit pairs
\* The driver of SpecPair never calls set_current_bit_a or set_current_bit_b:
\* the buffers are written by up to MaxPairEdges edges and by
\* force_past_new_minute only, in the seconds 0 .. MaxPairSecond.
MaxPairEdges == 4

MaxPairSecond == 2

\* the intervals between two edges, one of each class, in ticks
PairDeltas ==
    {Ticks(100000), Ticks(200000), Ticks(500000), Ticks(900000),
     Ticks(PASSIVE_RUNAWAY)}

NextPair ==
    \/ second < MaxPairSecond /\ ~new_minute /\ IncreaseSecond
    \/ edges < MaxPairEdges /\ ~past_new_minute /\ ForcePastNewMinute
    \/ \E low \in BOOLEAN : before_first_edge /\ HandleNewEdge(low, 0)
    \/ \E low \in BOOLEAN, d \in PairDeltas :
          /\ ~before_first_edge
          /\ edges < MaxPairEdges
          /\ HandleNewEdge(low, (t0 + d) % U32Ticks)

SpecPair == InitEdge /\ [][NextPair]_vars

\* ------------------------------------------------------------- properties

\* C1: in every reachable state the second counter is below 62, so the slot
\* of the current second, the eight slots of the marker window that ends
\* there and, at the end of a minute, the slots decode_time reads all lie
\* inside the 62-slot buffers, also when a minute passes without a marker.
C1_SecondInBuffer ==
    /\ second \in 0 .. 61
    /\ second >= 7 => (second - 7) .. second \subseteq DOMAIN bit_buffer_a
    /\ LET minute_length == get_minute_length(second, bit_buffer_a)
       IN  second + 1 = minute_length =>
               /\ decode_slots(leap_offset(minute_length)) \subseteq DOMAIN bit_buffer_a
               /\ decode_slots(leap_offset(minute_length)) \subseteq DOMAIN bit_buffer_b

\* C1 happens: the marker predicted at second 59 did not arrive, and
\* increase_second has counted on into the last slot of the buffers.
C1_CountedIntoLastSlot ==
    /\ call.op = "increase_second" /\ call.ret
    /\ second = 61
    /\ ~end_of_minute_marker_present(second, bit_buffer_a)

\* C2: get_minute_length returns second + 1 when second is 58, 59 or 60 and
\* the marker 01111110 ends at the current second; otherwise 61 when second
\* is 59 and slots 53..59 of channel A hold 0111111; otherwise 60. The result
\* is always 59, 60 or 61.
C2_MinuteLength ==
    LET m == get_minute_length(second, bit_buffer_a)
        Is(i, bit) == i \in Slots /\ bit_buffer_a[i] = Some(bit)
        MarkerEndsAt(e) == /\ Is(e - 7, FALSE)
                           /\ \A i \in (e - 6) .. (e - 1) : Is(i, TRUE)
                           /\ Is(e, FALSE)
        Ahead == Is(53, FALSE) /\ \A i \in 54 .. 59 : Is(i, TRUE)
    IN  /\ m \in {59, 60, 61}
        /\ m = IF second \in {58, 59, 60} /\ MarkerEndsAt(second)
               THEN second + 1
               ELSE IF second = 59 /\ Ahead THEN 61 ELSE 60

\* C2 happens: at second 59 the first seven marker bits are in slots 53..59
\* and the minute is taken to have 61 seconds.
C2_PredictedLeapSecond ==
    /\ second = 59
    /\ call.op \in {"set_current_bit_a", "handle_new_edge"}
    /\ get_minute_length(second, bit_buffer_a) = 61

\* C3: end_of_minute_marker_present is true exactly when second is at least 7
\* and the eight slots second-7 .. second of channel A hold 0,1,1,1,1,1,1,0,
\* all known; nothing else (channel B, the other slots) enters the result.
C3_MarkerPresent ==
    end_of_minute_marker_present(second, bit_buffer_a)
        <=> /\ second >= 7
            /\ bit_buffer_a[second - 7] = Some(FALSE)
            /\ \A i \in (second - 6) .. (second - 1) : bit_buffer_a[i] = Some(TRUE)
            /\ bit_buffer_a[second] = Some(FALSE)

\* C3 happens: the marker is found with just eight seconds accumulated.
C3_MarkerAfterEightSeconds ==
    /\ second = 7
    /\ call.op = "set_current_bit_a"
    /\ end_of_minute_marker_present(second, bit_buffer_a)

\* C4: a falling edge, not the first edge, with 150000 <= t_diff < 250000
\* after a previous interval above 650000 makes the bit pair of the current
\* second (1,0); with 250000 <= t_diff < 350000 it makes it (1,1). In both
\* cases the second counter stays, and past_new_minute, new_minute and
\* new_second are false.
C4_BitPairsWithA ==
    [][LET t_diff == (call'.t - t0 + U32Ticks) % U32Ticks
       IN  (/\ call'.op = "handle_new_edge" /\ call'.low
            /\ ~before_first_edge
            /\ t_diff >= spike_limit
            /\ t_diff >= Ticks(150000) /\ t_diff < Ticks(350000)
            /\ old_t_diff > Ticks(650000))
           => /\ bit_buffer_a'[second] = Some(TRUE)
              /\ bit_buffer_b'[second] = Some(t_diff >= Ticks(250000))
              /\ second' = second
              /\ ~past_new_minute' /\ ~new_minute' /\ ~new_second'
      ]_vars

\* C4 happens: a falling edge 200000 us after a rising edge that ended a
\* long passive part has stored (1,0).
C4_StoredOneZero ==
    /\ call.op = "handle_new_edge" /\ call.low
    /\ call.t_diff >= Ticks(150000) /\ call.t_diff < Ticks(250000)
    /\ call.old > Ticks(650000)
    /\ bit_buffer_a[second] = Some(TRUE) /\ bit_buffer_b[second] = Some(FALSE)

\* C5: a falling edge, not the first edge, with spike_limit <= t_diff <
\* 150000 makes the bit pair of the current second (0,1) when the previous
\* interval was itself between 0 and 150000 (whatever the slot held, so a
\* (0,0) of the same second is upgraded), and (0,0) when the previous
\* interval was above 450000.
C5_BitPairsWithoutA ==
    [][LET t_diff == (call'.t - t0 + U32Ticks) % U32Ticks
       IN  (/\ call'.op = "handle_new_edge" /\ call'.low
            /\ ~before_first_edge
            /\ t_diff >= spike_limit /\ t_diff < Ticks(150000))
           => /\ (0 < old_t_diff /\ old_t_diff < Ticks(150000))
                  => /\ bit_buffer_a'[second] = Some(FALSE)
                     /\ bit_buffer_b'[second] = Some(TRUE)
              /\ old_t_diff > Ticks(450000)
                  => /\ bit_buffer_a'[second] = Some(FALSE)
                     /\ bit_buffer_b'[second] = Some(FALSE)
      ]_vars

\* C5 happens: the second short active part of a second has stored (0,1).
C5_StoredZeroOne ==
    /\ call.op = "handle_new_edge" /\ call.low
    /\ call.t_diff < Ticks(150000)
    /\ 0 < call.old /\ call.old < Ticks(150000)
    /\ bit_buffer_a[second] = Some(FALSE) /\ bit_buffer_b[second] = Some(TRUE)

\* C6: a falling edge, not the first edge, with 350000 <= t_diff < 550000
\* after a previous interval above 650000 is the begin-of-minute marker:
\* afterwards past_new_minute is true, new_minute is false, the second
\* counter is 0 whatever it was, slot 0 of both channels holds 1 and no other
\* slot has changed.
C6_BeginOfMinute ==
    [][LET t_diff == (call'.t - t0 + U32Ticks) % U32Ticks
       IN  (/\ call'.op = "handle_new_edge" /\ call'.low
            /\ ~before_first_edge
            /\ t_diff >= Ticks(350000) /\ t_diff < Ticks(550000)
            /\ old_t_diff > Ticks(650000))
           => /\ past_new_minute' /\ ~new_minute'
              /\ second' = 0
              /\ bit_buffer_a'[0] = Some(TRUE) /\ bit_buffer_b'[0] = Some(TRUE)
              /\ \A i \in Slots \ {0} :
                    /\ bit_buffer_a'[i] = bit_buffer_a[i]
                    /\ bit_buffer_b'[i] = bit_buffer_b[i]
      ]_vars

\* C6 happens: the marker arrived while the second counter was not 0 and
\* reset it.
C6_MarkerResetSecond ==
    /\ call.op = "handle_new_edge" /\ call.low
    /\ call.t_diff >= Ticks(350000) /\ call.t_diff < Ticks(550000)
    /\ call.old > Ticks(650000)
    /\ minutes = 1 /\ second = 0 /\ past_new_minute
    /\ bit_buffer_a[1] # None

\* C7: a falling edge, not the first edge, with t_diff >= 150000 that is an
\* active runaway (t_diff >= 550000) or follows an interval of at most
\* 650000 (the first falling edge included) sets both bits of the current
\* second to Unknown and writes no known bit anywhere.
C7_BrokenBit ==
    [][LET t_diff == (call'.t - t0 + U32Ticks) % U32Ticks
       IN  (/\ call'.op = "handle_new_edge" /\ call'.low
            /\ ~before_first_edge
            /\ t_diff >= Ticks(150000)
            /\ (t_diff >= Ticks(550000) \/ old_t_diff <= Ticks(650000)))
           => /\ bit_buffer_a'[second] = None /\ bit_buffer_b'[second] = None
              /\ second' = second
              /\ \A i \in Slots \ {second} :
                    /\ bit_buffer_a'[i] = bit_buffer_a[i]
                    /\ bit_buffer_b'[i] = bit_buffer_b[i]
      ]_vars

\* C7 happens: an active part of bit length after a passive part of exactly
\* 650000 us has left the current second Unknown and the bit of second 0 as
\* it was.
C7_TornCycleUnknown ==
    /\ call.op = "handle_new_edge" /\ call.low
    /\ call.t_diff >= Ticks(150000) /\ call.t_diff < Ticks(550000)
    /\ call.old = Ticks(650000)
    /\ bit_buffer_a[second] = None /\ bit_buffer_b[second] = None
    /\ bit_buffer_a[0] # None /\ second = 1

\* C8: a rising edge, not the first edge, with spike_limit <= t_diff <
\* 1500000 leaves both buffers and the second counter alone and sets
\* new_second to (t_diff > 450000); with t_diff >= 1500000 it sets both bits
\* of the current second to Unknown and leaves new_second alone.
C8_RisingEdge ==
    [][LET t_diff == (call'.t - t0 + U32Ticks) % U32Ticks
       IN  (/\ call'.op = "handle_new_edge" /\ ~call'.low
            /\ ~before_first_edge
            /\ t_diff >= spike_limit)
           => IF t_diff < Ticks(1500000)
              THEN /\ UNCHANGED <<bit_buffer_a, bit_buffer_b, second>>
                   /\ new_second' = (t_diff > Ticks(450000))
              ELSE /\ bit_buffer_a' = [bit_buffer_a EXCEPT ![second] = None]
                   /\ bit_buffer_b' = [bit_buffer_b EXCEPT ![second] = None]
                   /\ UNCHANGED <<new_second, second>>
      ]_vars

\* C8 happens: a passive runaway came after a rising edge that had announced
\* a new second, and new_second is still set.
C8_RunawayKeepsNewSecond ==
    /\ call.op = "handle_new_edge" /\ ~call.low
    /\ call.t_diff >= Ticks(1500000)
    /\ new_second
    /\ bit_buffer_a[second] = None /\ bit_buffer_b[second] = None

\* C9: a handle_new_edge call, not the first edge, with t_diff < spike_limit
\* changes nothing but t0, which then equals the timestamp of the edge: both
\* buffers, the second counter, the three flags and old_t_diff keep their
\* values.
C9_SpikeOnlyMovesT0 ==
    [][LET t_diff == (call'.t - t0 + U32Ticks) % U32Ticks
       IN  (/\ call'.op = "handle_new_edge"
            /\ ~before_first_edge
            /\ t_diff < spike_limit)
           => /\ t0' = call'.t
              /\ UNCHANGED <<bit_buffer_a, bit_buffer_b, second, new_second,
                             new_minute, past_new_minute, old_t_diff>>
      ]_vars

\* C10: an edge that arrives less than spike_limit after the previous edge
\* classifies nothing and changes no flag, however long the train of such
\* edges has become; an edge that arrives at least spike_limit after the
\* previous edge is classified once, with the interval since that edge.
C10_SpikeTrainAbsorbed ==
    [][LET gap == (call'.t - call.t + U32Ticks) % U32Ticks
       IN  (call.op = "handle_new_edge" /\ call'.op = "handle_new_edge")
           => IF gap < spike_limit
              THEN UNCHANGED <<bit_buffer_a, bit_buffer_b, second, new_second,
                               new_minute, past_new_minute, old_t_diff, edges>>
              ELSE /\ edges' = edges + 1
                   /\ old_t_diff' = gap
      ]_vars

\* C10 happens: two spikes of 20000 us each, together longer than the spike
\* limit of 30000 us, were followed by one classified edge.
C10_TrainThenOneEdge ==
    /\ call.op = "handle_new_edge"
    /\ spike_limit = Ticks(30000)
    /\ spikes = 2 /\ edges = 2
    /\ call.t_diff >= spike_limit /\ old_t_diff = call.t_diff
    /\ call.t - call.t_diff = Ticks(40000)

\* C11: the timestamp arithmetic of handle_new_edge is correct modulo 2^32:
\* for every edge after the first, also one whose timestamp has wrapped
\* since t0, the interval is (timestamp - t0) mod 2^32, the call returns
\* without an arithmetic overflow, and a spike leaves t0 at the timestamp of
\* the edge.
C11_ModularTimestamps ==
    [][(call'.op = "handle_new_edge" /\ ~before_first_edge)
       => /\ call'.t_diff = (call'.t - t0 + U32Ticks) % U32Ticks
          /\ ~panicked'
          /\ t0' = call'.t
      ]_vars

\* C12: a relaxed decode_time of a complete 60-second minute (second 59,
\* slots 0..59 of both channels known, the number of ones of each parity
\* group odd) pushes year, month, day, weekday, hour and minute as valid with
\* the big-endian BCD values of channel-A positions 17..24, 25..29, 30..35,
\* 36..38, 39..44 and 45..51, sets the four parities to Ok and takes DUT1
\* from channel-B positions 1..8 and 9..16. The frame of 2022-10-23,
\* Saturday, 14:58 with two negative DUT1 bits gives 22, 10, 23, 6, 14, 58
\* and DUT1 -2.
C12_NominalMinute ==
    LET A(i) == IF bit_buffer_a[i] = Some(TRUE) THEN 1 ELSE 0
        B(i) == IF bit_buffer_b[i] = Some(TRUE) THEN 1 ELSE 0
        Odd(from, to, par) ==
            (Cardinality({i \in from .. to : A(i) = 1}) + B(par)) % 2 = 1
        year == 80 * A(17) + 40 * A(18) + 20 * A(19) + 10 * A(20)
                + 8 * A(21) + 4 * A(22) + 2 * A(23) + A(24)
        month == 10 * A(25) + 8 * A(26) + 4 * A(27) + 2 * A(28) + A(29)
        day == 20 * A(30) + 10 * A(31) + 8 * A(32) + 4 * A(33) + 2 * A(34) + A(35)
        weekday == 4 * A(36) + 2 * A(37) + A(38)
        hour == 20 * A(39) + 10 * A(40) + 8 * A(41) + 4 * A(42) + 2 * A(43) + A(44)
        minute == 40 * A(45) + 20 * A(46) + 10 * A(47) + 8 * A(48)
                  + 4 * A(49) + 2 * A(50) + A(51)
        Is(f, v, units) ==
            units <= 9 /\ v <= 99 =>
                pushed[1].fields[f].value = Some(v) /\ pushed[1].fields[f].valid
        P == Cardinality({i \in 1 .. 8 : B(i) = 1})
        N == Cardinality({i \in 9 .. 16 : B(i) = 1})
        Unary(from, n) == \A i \in from .. (from + 7) : B(i) = 1 <=> i < from + n
    IN  (/\ call.op = "decode_time" /\ ~call.strict
         /\ second = 59 /\ pushed # None
         /\ \A i \in 0 .. 59 : bit_buffer_a[i] # None /\ bit_buffer_b[i] # None
         /\ Odd(17, 24, 54) /\ Odd(25, 35, 55) /\ Odd(36, 38, 56) /\ Odd(39, 51, 57))
        => /\ Is("year", year, 8 * A(21) + 4 * A(22) + 2 * A(23) + A(24))
           /\ Is("month", month, 8 * A(26) + 4 * A(27) + 2 * A(28) + A(29))
           /\ Is("day", day, 8 * A(32) + 4 * A(33) + 2 * A(34) + A(35))
           /\ Is("weekday", weekday, weekday)
           /\ Is("hour", hour, 8 * A(41) + 4 * A(42) + 2 * A(43) + A(44))
           /\ Is("minute", minute, 8 * A(48) + 4 * A(49) + 2 * A(50) + A(51))
           /\ parity_1 = Some(TRUE) /\ parity_2 = Some(TRUE)
           /\ parity_3 = Some(TRUE) /\ parity_4 = Some(TRUE)
           /\ (Unary(1, P) /\ Unary(9, N) /\ P * N = 0) => dut1 = Some(P - N)
           /\ (\A i \in 0 .. 59 : /\ bit_buffer_a[i] = Some(BIT_BUFFER_A[i + 1])
                                  /\ bit_buffer_b[i] = Some(BIT_BUFFER_B[i + 1]))
              => /\ year = 22 /\ month = 10 /\ day = 23 /\ weekday = 6
                 /\ hour = 14 /\ minute = 58
                 /\ dut1 = Some(0 - 2)

\* C12 happens: the frame of the tests was decoded in relaxed mode.
C12_DecodedTestFrame ==
    /\ call.op = "decode_time" /\ ~call.strict
    /\ frame_length = 60 /\ second = 59 /\ pushed # None
    /\ pushed[1].fields["year"].value = Some(22)
    /\ pushed[1].fields["month"].value = Some(10)
    /\ pushed[1].fields["day"].value = Some(23)
    /\ pushed[1].fields["weekday"].value = Some(6)
    /\ pushed[1].fields["hour"].value = Some(14)
    /\ pushed[1].fields["minute"].value = Some(58)
    /\ \A f \in RdtFields : pushed[1].fields[f].valid
    /\ dut1 = Some(0 - 2)
    /\ parity_1 = Some(TRUE) /\ parity_4 = Some(TRUE)

\* C13: let F be a fully known 60-second frame that ends in the marker.
\* Decoding, strict or relaxed, the frame that is F without position 16 at
\* second 58, or F with one Unknown slot inserted at position 17 at second
\* 60, pushes the same year, month, day, weekday, hour and minute values and
\* sets the same four parities as decoding F at second 59, and
\* get_minute_length() is 59 and 61. F is rebuilt here from the buffers of
\* the short or long minute and decoded without shift.
C13_LeapSecondFrames ==
    LET Nominal(buf) ==
            [i \in Slots |->
                IF i > 59 THEN None
                ELSE IF frame_length = 59
                     THEN (IF i <= 15 THEN buf[i]
                           ELSE IF i = 16 THEN Some(FALSE) ELSE buf[i - 1])
                     ELSE (IF i <= 16 THEN buf[i] ELSE buf[i + 1])]
        F_a == Nominal(bit_buffer_a)
        F_b == Nominal(bit_buffer_b)
        p == decode_parities(F_a, F_b, 0)
    IN  (/\ call.op = "decode_time"
         /\ frame_length \in {59, 61} /\ second + 1 = frame_length
         /\ \A i \in 0 .. second :
                (frame_length = 61 /\ i = 17)
                \/ (bit_buffer_a[i] # None /\ bit_buffer_b[i] # None)
         /\ frame_length = 61 => bit_buffer_a[17] = None /\ bit_buffer_b[17] = None
         /\ \A k \in 0 .. 7 : bit_buffer_a[second - 7 + k] = Some(MARKER[k + 1]))
        => /\ get_minute_length(second, bit_buffer_a) = frame_length
           /\ pushed # None
           /\ \A f \in RdtFields :
                  pushed[1].fields[f].value = field_value(f, F_a, 0)
           /\ parity_1 = p.p1 /\ parity_2 = p.p2
           /\ parity_3 = p.p3 /\ parity_4 = p.p4
           /\ (\A i \in 0 .. 59 : /\ F_a[i] = Some(BIT_BUFFER_A[i + 1])
                                  /\ (i # 16 => F_b[i] = Some(BIT_BUFFER_B[i + 1])))
              => /\ pushed[1].fields["year"].value = Some(22)
                 /\ pushed[1].fields["month"].value = Some(10)
                 /\ pushed[1].fields["day"].value = Some(23)
                 /\ pushed[1].fields["weekday"].value = Some(6)
                 /\ pushed[1].fields["hour"].value = Some(14)
                 /\ pushed[1].fields["minute"].value = Some(58)
                 /\ parity_1 = Some(TRUE) /\ parity_2 = Some(TRUE)
                 /\ parity_3 = Some(TRUE) /\ parity_4 = Some(TRUE)

\* C13 happens: a minute with a positive leap second was decoded in strict
\* mode at second 60 and gave the date and time of the 60-second frame.
C13_DecodedLongMinute ==
    /\ call.op = "decode_time" /\ call.strict
    /\ frame_length = 61 /\ second = 60
    /\ get_minute_length(second, bit_buffer_a) = 61
    /\ bit_buffer_a[17] = None
    /\ pushed # None
    /\ pushed[1].fields["year"].value = Some(22)
    /\ pushed[1].fields["day"].value = Some(23)
    /\ pushed[1].fields["minute"].value = Some(58)
    /\ parity_1 = Some(TRUE) /\ parity_2 = Some(TRUE)

\* C14: in strict mode decode_time passes one validity flag with all six
\* calendar fields: true iff parity_1 .. parity_4 are all Ok, DUT1 has a
\* value and the end-of-minute marker is present at the current second. One
\* Bad or Unknown parity, an invalid DUT1 or a missing marker invalidates
\* every field.
C14_StrictGate ==
    LET gate == /\ parity_1 = Some(TRUE) /\ parity_2 = Some(TRUE)
                /\ parity_3 = Some(TRUE) /\ parity_4 = Some(TRUE)
                /\ dut1 # None
                /\ second >= 7
                /\ \A k \in 0 .. 7 :
                       bit_buffer_a[second - 7 + k] = Some(MARKER[k + 1])
    IN  (call.op = "decode_time" /\ call.strict /\ pushed # None)
        => \A f \in RdtFields : pushed[1].fields[f].valid <=> gate

\* C14 happens: a strict decode of a frame whose parities are all Ok and
\* whose marker is present, but whose DUT1 bits are invalid, passed every
\* field as invalid.
C14_InvalidDut1Alone ==
    /\ call.op = "decode_time" /\ call.strict /\ pushed # None
    /\ parity_1 = Some(TRUE) /\ parity_2 = Some(TRUE)
    /\ parity_3 = Some(TRUE) /\ parity_4 = Some(TRUE)
    /\ end_of_minute_marker_present(second, bit_buffer_a)
    /\ dut1 = None
    /\ \A f \in RdtFields :
           pushed[1].fields[f].value # None /\ ~pushed[1].fields[f].valid

\* C15: in relaxed mode decode_time passes validity true for year iff
\* parity_1 is Ok, for month iff parity_2 is Ok, for weekday iff parity_3 is
\* Ok, for hour and minute iff parity_4 is Ok, and for day iff parity_1,
\* parity_2 and parity_3 are all Ok; no other dependency exists (DUT1 and
\* the marker play no role).
C15_RelaxedGates ==
    LET valid(f) == pushed[1].fields[f].valid
    IN  (call.op = "decode_time" /\ ~call.strict /\ pushed # None)
        => /\ valid("year") <=> parity_1 = Some(TRUE)
           /\ valid("month") <=> parity_2 = Some(TRUE)
           /\ valid("weekday") <=> parity_3 = Some(TRUE)
           /\ valid("hour") <=> parity_4 = Some(TRUE)
           /\ valid("minute") <=> parity_4 = Some(TRUE)
           /\ valid("day") <=> (/\ parity_1 = Some(TRUE)
                               /\ parity_2 = Some(TRUE)
                               /\ parity_3 = Some(TRUE))

\* C15 happens: a relaxed decode with a Bad weekday parity passed weekday
\* and day as invalid and year, month, hour and minute as valid.
C15_BadWeekdayParity ==
    /\ call.op = "decode_time" /\ ~call.strict /\ pushed # None
    /\ parity_1 = Some(TRUE) /\ parity_2 = Some(TRUE)
    /\ parity_3 = Some(FALSE) /\ parity_4 = Some(TRUE)
    /\ pushed[1].fields["year"].valid /\ pushed[1].fields["month"].valid
    /\ pushed[1].fields["hour"].valid /\ pushed[1].fields["minute"].valid
    /\ ~pushed[1].fields["weekday"].valid /\ ~pushed[1].fields["day"].valid

\* C16: after a decode at the minute boundary each parity_k (channel-A
\* ranges 17..24, 25..35, 36..38, 39..51 and channel-B bits 54, 55, 56, 57,
\* all shifted by the leap-second offset) is Unknown if a bit of its range or
\* its parity bit is Unknown; otherwise it is Ok iff the number of ones in
\* the range plus the parity bit is odd, and Bad otherwise. The validity
\* passed with a field whose group is Unknown is false.
C16_ParityGroups ==
    LET off == second + 1 - 60
        Group(from, to, par) ==
            {<<"a", i + off>> : i \in from .. to} \cup {<<"b", par + off>>}
        Bit(x) == IF x[1] = "a" THEN bit_buffer_a[x[2]] ELSE bit_buffer_b[x[2]]
        Expected(g) ==
            IF \E x \in g : Bit(x) = None THEN None
            ELSE Some(Cardinality({x \in g : Bit(x) = Some(TRUE)}) % 2 = 1)
        Invalid(f) == ~pushed[1].fields[f].valid
    IN  (call.op = "decode_time" /\ pushed # None)
        => /\ parity_1 = Expected(Group(17, 24, 54))
           /\ parity_2 = Expected(Group(25, 35, 55))
           /\ parity_3 = Expected(Group(36, 38, 56))
           /\ parity_4 = Expected(Group(39, 51, 57))
           /\ parity_1 = None => Invalid("year") /\ Invalid("day")
           /\ parity_2 = None => Invalid("month") /\ Invalid("day")
           /\ parity_3 = None => Invalid("weekday") /\ Invalid("day")
           /\ parity_4 = None => Invalid("hour") /\ Invalid("minute")

\* C16 happens: a decode found the last bit of the year Unknown, so parity_1
\* is Unknown and the year invalid, with the other parities Ok.
C16_UnknownYearBit ==
    /\ call.op = "decode_time" /\ pushed # None
    /\ bit_buffer_a[24 + (second + 1 - 60)] = None
    /\ parity_1 = None
    /\ parity_2 = Some(TRUE) /\ parity_3 = Some(TRUE) /\ parity_4 = Some(TRUE)
    /\ ~pushed[1].fields["year"].valid

\* C17: get_unary_value(buffer, start, stop) is Some(k) iff every bit of
\* start..=stop is known and the bits are k ones followed only by zeros
\* (0 <= k <= stop - start + 1); it is None if a bit of the range is Unknown
\* or a one follows a zero, directly or not. The bits outside the range do
\* not count.
C17_UnaryValue ==
    LET bit(i) == bit_buffer_b[i]
        Shape(k) ==
            \A i \in call.start .. call.stop :
                bit(i) = Some(i < call.start + k)
        Scrambled ==
            \/ \E i \in call.start .. call.stop : bit(i) = None
            \/ \E i, j \in call.start .. call.stop :
                  i < j /\ bit(i) = Some(FALSE) /\ bit(j) = Some(TRUE)
    IN  call.op = "get_unary_value"
        => /\ \A k \in 0 .. (call.stop - call.start + 1) :
                  call.value = Some(k) <=> Shape(k)
           /\ call.value = None <=> Scrambled
           /\ call.value # None =>
                  call.value[1] \in 0 .. (call.stop - call.start + 1)

\* C17 happens: a range of three bits, one one and two zeros, decoded to 1
\* although a one follows outside the range.
C17_OneThenZeros ==
    /\ call.op = "get_unary_value"
    /\ call.start = 0 /\ call.stop = 2
    /\ bit_buffer_b[0] = Some(TRUE)
    /\ bit_buffer_b[1] = Some(FALSE) /\ bit_buffer_b[2] = Some(FALSE)
    /\ bit_buffer_b[3] = Some(TRUE)
    /\ call.value = Some(1)

\* C18: after a decode at the minute boundary DUT1 is the positive count
\* minus the negative count when both unary counts are known and one of
\* them is zero; it is Unknown when a count is invalid or Unknown or when
\* both are positive. Nothing of the DUT1 of an earlier minute survives: the
\* value depends on the present bits alone.
C18_Dut1 ==
    LET B(i) == bit_buffer_b[i]
        Count(from, to) ==
            IF \E i \in from .. to : B(i) = None THEN None
            ELSE IF \E i, j \in from .. to :
                        i < j /\ B(i) = Some(FALSE) /\ B(j) = Some(TRUE)
                 THEN None
                 ELSE Some(Cardinality({i \in from .. to : B(i) = Some(TRUE)}))
        pos == Count(1, 8)
        neg == Count(9, IF second = 58 THEN 15 ELSE 16)
    IN  (call.op = "decode_time" /\ pushed # None)
        => /\ (pos # None /\ neg # None /\ (pos[1] = 0 \/ neg[1] = 0))
              => dut1 = Some(pos[1] - neg[1])
           /\ (pos = None \/ neg = None) => dut1 = None
           /\ (pos # None /\ neg # None /\ pos[1] > 0 /\ neg[1] > 0)
              => dut1 = None

\* C18 happens: first_minute was cleared by a minute with a known DUT1, and
\* the decode of the next minute, whose positive and negative counts are
\* both positive, left DUT1 Unknown.
C18_StaleDut1Dropped ==
    /\ call.op = "decode_time" /\ pushed # None
    /\ minutes = 1 /\ ~first_minute
    /\ bit_buffer_b[1] = Some(TRUE) /\ bit_buffer_b[9] = Some(TRUE)
    /\ dut1 = None

\* C19: in a minute of 59 seconds the negative DUT1 count is taken from
\* channel-B positions 9..15 (position 16 is dropped, not shifted), in
\* minutes of 60 and 61 seconds from positions 9..16; the positive count is
\* taken from positions 1..8 in every minute; and the positions from 17 on
\* are shifted by -1, 0 or +1: the year is read from 17..24 and parity_4
\* uses the parity bit 57, both shifted.
C19_Dut1Range ==
    LET len == get_minute_length(second, bit_buffer_a)
        shift == CASE len = 59 -> 0 - 1 [] len = 60 -> 0 [] len = 61 -> 1
        Ones(from, to) ==
            Cardinality({i \in from .. to : bit_buffer_b[i] = Some(TRUE)})
        Unary(from, to) ==
            \A i \in from .. to :
                bit_buffer_b[i] = Some(i < from + Ones(from, to))
        last == IF len = 59 THEN 15 ELSE 16
        A(i) == IF bit_buffer_a[i + shift] = Some(TRUE) THEN 1 ELSE 0
        year == 80 * A(17) + 40 * A(18) + 20 * A(19) + 10 * A(20)
                + 8 * A(21) + 4 * A(22) + 2 * A(23) + A(24)
    IN  (call.op = "decode_time" /\ pushed # None)
        => /\ len \in {59, 60, 61}
           /\ dut1 # None <=>
                  /\ Unary(1, 8) /\ Unary(9, last)
                  /\ Ones(1, 8) * Ones(9, last) = 0
           /\ dut1 # None => dut1 = Some(Ones(1, 8) - Ones(9, last))
           /\ pushed[1].fields["year"].value # None
                  => pushed[1].fields["year"].value = Some(year)
           /\ (\A i \in 17 .. 24 : bit_buffer_a[i + shift] # None)
                  => (pushed[1].fields["year"].value = None <=>
                         (year > 99 \/ 8 * A(21) + 4 * A(22) + 2 * A(23) + A(24) > 9))
           /\ parity_4 # None =>
                  parity_4 = Some((Cardinality({i \in 39 .. 51 : A(i) = 1})
                                   + (IF bit_buffer_b[57 + shift] = Some(TRUE)
                                      THEN 1 ELSE 0)) % 2 = 1)

\* C19 happens: in a minute of 59 seconds the bit after the seven negative
\* DUT1 positions was a one after zeros, and DUT1 was decoded all the same.
C19_SlotSixteenIgnored ==
    /\ call.op = "decode_time" /\ pushed # None
    /\ second = 58 /\ get_minute_length(second, bit_buffer_a) = 59
    /\ bit_buffer_b[15] = Some(FALSE) /\ bit_buffer_b[16] = Some(TRUE)
    /\ dut1 = Some(0 - 2)

\* C20: first_minute is true initially, and once it is false it stays
\* false whatever operation follows (edges, bit setters, forced minute
\* markers, decodes of either policy, second advances).
C20_FirstMinuteLatched ==
    (first_minute = TRUE) /\ [][~first_minute => ~first_minute']_vars

\* C20 happens: with first_minute cleared, a decode of a later minute found
\* an invalid DUT1 and first_minute is still false.
C20_FailedDecodeAfterLatch ==
    /\ ~first_minute
    /\ minutes = 1
    /\ call.op = "decode_time" /\ pushed # None
    /\ dut1 = None

\* C21: a decode_time call changes first_minute from true to false iff it
\* is made at the minute boundary and, with the fields pushed, the
\* accumulator is valid and the policy gate holds: in strict mode all four
\* parities Ok, DUT1 known and the end-of-minute marker present, in relaxed
\* mode DUT1 known.
C21_FirstMinuteCleared ==
    [][(call'.op = "decode_time" /\ first_minute)
       => (~first_minute'
           <=> /\ second + 1 = get_minute_length(second, bit_buffer_a)
               /\ pushed' # None
               /\ \A f \in RdtFields : radio_datetime'[f] # None
               /\ radio_datetime'.dst # None
               /\ dut1' # None
               /\ call'.strict =>
                      /\ parity_1' = Some(TRUE) /\ parity_2' = Some(TRUE)
                      /\ parity_3' = Some(TRUE) /\ parity_4' = Some(TRUE)
                      /\ second >= 7
                      /\ \A k \in 0 .. 7 :
                             bit_buffer_a[second - 7 + k] = Some(MARKER[k + 1]))
      ]_vars

\* C21 happens: the first decode of the minute, relaxed, has cleared
\* first_minute although the end-of-minute marker is broken, a case the
\* strict gate refuses.
C21_ClearedByRelaxedDecode ==
    /\ call.op = "decode_time" /\ ~call.strict
    /\ decodes = 1 /\ minutes = 0
    /\ ~first_minute
    /\ pushed # None /\ dut1 # None
    /\ ~end_of_minute_marker_present(second, bit_buffer_a)

\* C22, as the code has it: decode_time recomputes the parities and DUT1
\* and pushes fields to the accumulator exactly when the second counter plus
\* one equals get_minute_length(), that is in the last second of the minute.
C22_DecodesInLastSecond ==
    call.op = "decode_time"
    => (pushed # None <=> second + 1 = get_minute_length(second, bit_buffer_a))

\* C22 as stated: decode_time recomputes the parities and DUT1 and pushes
\* fields only when the second counter equals get_minute_length().
C22_DecodesAtMinuteLength ==
    (call.op = "decode_time" /\ pushed # None)
    => second = get_minute_length(second, bit_buffer_a)

\* C22 happens: a decode in second 59 of a minute of 60 seconds pushed the
\* fields and set the parities.
C22_PushedInSecond59 ==
    /\ call.op = "decode_time" /\ pushed # None
    /\ second = 59 /\ get_minute_length(second, bit_buffer_a) = 60
    /\ parity_1 # None /\ dut1 # None
    /\ radio_datetime.minute = pushed[1].fields["minute"].value

\* C23: a decode_time call, strict or relaxed, made when second + 1 differs
\* from get_minute_length() leaves parity_1 .. parity_4, DUT1, first_minute,
\* both bit buffers and the second counter unchanged and pushes no field to
\* the accumulator.
C23_IncompleteMinute ==
    [][(/\ call'.op = "decode_time"
        /\ second + 1 # get_minute_length(second, bit_buffer_a))
       => /\ UNCHANGED <<parity_1, parity_2, parity_3, parity_4, dut1,
                         first_minute, bit_buffer_a, bit_buffer_b, second>>
          /\ pushed' = None
          /\ \/ radio_datetime' = radio_datetime
             \/ radio_datetime' = rdt_add_minute(rdt_clear_jumps(radio_datetime)).rdt
             \/ radio_datetime' = rdt_clear_jumps(radio_datetime)
      ]_vars

\* C23 happens: a decode in second 42 found the DUT1 bits received and left
\* DUT1, the parities and first_minute as they were.
C23_DecodedInSecond42 ==
    /\ call.op = "decode_time"
    /\ second = 42
    /\ pushed = None
    /\ bit_buffer_b[9] # None /\ bit_buffer_b[16] # None
    /\ dut1 = None /\ parity_1 = None /\ first_minute
    /\ radio_datetime = rdt_new

\* C24: a decode_time call entered with first_minute false calls add_minute
\* of the accumulator once, after clear_jumps and before any field is
\* pushed, at the minute boundary or not; a call entered with first_minute
\* true does not call add_minute. So the accumulator after the call is the
\* old one with its jumps cleared, advanced by one minute iff first_minute
\* was false, and then, at the boundary, given the pushed fields.
C24_AddMinuteOnce ==
    [][call'.op = "decode_time"
       => LET cleared == [radio_datetime EXCEPT !.jumps = {}]
              advanced == IF first_minute THEN cleared
                          ELSE rdt_add_minute(cleared).rdt
          IN  IF pushed' = None
              THEN radio_datetime' = advanced
              ELSE /\ radio_datetime' =
                          rdt_set_dst(push_fields(advanced, pushed'[1].fields, 6),
                                      pushed'[1].dst.value,
                                      pushed'[1].dst.announce,
                                      pushed'[1].dst.track_jump)
                   /\ \A f \in RdtFields :
                          pushed'[1].fields[f].track_jump
                          <=> (~first_minute /\ rdt_is_valid(cleared))
      ]_vars

\* C24 happens: with first_minute cleared by the minute 14:58, a decode
\* away from the minute boundary has advanced the accumulator to 14:59.
C24_AdvancedOffBoundary ==
    /\ call.op = "decode_time"
    /\ ~first_minute
    /\ pushed = None
    /\ radio_datetime.hour = Some(14) /\ radio_datetime.minute = Some(59)

C26_IncreaseSecond ==
    [][call'.op = "increase_second"
       => LET length == get_minute_length(second, bit_buffer_a)
          IN  IF new_minute
              THEN second' = 0 /\ call'.ret
              ELSE IF second + 1 = length \/ second + 1 = 62
                   THEN second' = 0 /\ ~call'.ret
                   ELSE second' = second + 1 /\ call'.ret
      ]_vars

\* C26 happens: increase_second went back to second 0 and returned true,
\* new_minute being set in the middle of the window.
C26_ResetByNewMinute ==
    /\ call.op = "increase_second"
    /\ second = 0 /\ call.ret
    /\ new_minute
    /\ feed_from = 51
    /\ bit_buffer_a[53] # None /\ bit_buffer_a[54] = None

\* C27: set_spike_limit(v) sets the spike limit to v iff v < ACTIVE_0_LIMIT;
\* for any other v it leaves the spike limit and all other state as they
\* were. So the spike limit is below ACTIVE_0_LIMIT in every reachable state.
C27_SpikeLimitRange ==
    /\ [](spike_limit < Ticks(ACTIVE_0_LIMIT))
    /\ [][call'.op = "set_spike_limit"
          => /\ spike_limit' = IF call'.t < Ticks(150000)
                               THEN call'.t ELSE spike_limit
             /\ UNCHANGED <<flagVars, second, bufferVars, before_first_edge,
                            t0, old_t_diff, panicked, decodeVars>>
         ]_vars

\* C27 happens: set_spike_limit(ACTIVE_0_LIMIT) was ignored and an earlier
\* limit of 20 ms is still in force.
C27_LimitRejected ==
    /\ call.op = "set_spike_limit"
    /\ call.t = Ticks(ACTIVE_0_LIMIT)
    /\ spike_limit = Ticks(20000)

\* C28 as stated: in every reachable state the second counter lies in
\* [0, minute_length]: it never exceeds what get_minute_length() returns in
\* that state.
C28_SecondWithinMinute ==
    second <= get_minute_length(second, bit_buffer_a)

\* C29: get_minute_length() and end_of_minute_marker_present() are pure: a
\* call changes no state of the decoder, and as long as no mutating
\* operation follows, a further call returns what the last call returned.
C29_PureQueries ==
    /\ [](/\ call.op = "get_minute_length"
             => call.value = Some(get_minute_length(second, bit_buffer_a))
          /\ call.op = "end_of_minute_marker_present"
             => call.ret = end_of_minute_marker_present(second, bit_buffer_a))
    /\ [][call'.op \in {"get_minute_length", "end_of_minute_marker_present"}
          => UNCHANGED <<flagVars, second, bufferVars, edgeVars, panicked,
                         decodeVars>>
         ]_vars

\* C29 happens: get_minute_length() returned 61 in second 59, where the
\* marker is predicted and not yet present.
C29_QueriedPredictedLeap ==
    /\ call.op = "get_minute_length"
    /\ call.value = Some(61)
    /\ second = 59
    /\ ~end_of_minute_marker_present(second, bit_buffer_a)

\* C30 as stated: new_minute and past_new_minute are cleared at the start of
\* every handle_new_edge call: after any call, whatever edge it carries, a
\* flag is true only if that same call set it (new_minute by a short active
\* interval that completes the end-of-minute marker, past_new_minute by the
\* begin-of-minute marker).
C30_FlagsClearedByEveryEdge ==
    [][call'.op = "handle_new_edge"
       => /\ new_minute'
             => /\ ~before_first_edge
                /\ call'.low
                /\ call'.t_diff >= spike_limit
                /\ call'.t_diff < Ticks(ACTIVE_0_LIMIT)
          /\ past_new_minute'
             => /\ ~before_first_edge
                /\ call'.low
                /\ call'.t_diff >= spike_limit
                /\ call'.t_diff >= Ticks(ACTIVE_AB_LIMIT)
                /\ call'.t_diff < Ticks(MINUTE_LIMIT)
      ]_vars

\* C31: set_current_bit_a(v) writes v into channel A at the current second
\* only and set_current_bit_b(v) writes v into channel B at the current second
\* only; each clears new_minute and past_new_minute and leaves the other
\* channel, every other slot, the second counter, new_second and first_minute
\* unchanged.
C31_SetCurrentBit ==
    [][/\ call'.op = "set_current_bit_a"
          => /\ bit_buffer_a' = [bit_buffer_a EXCEPT ![second] = call'.value]
             /\ bit_buffer_b' = bit_buffer_b
             /\ ~new_minute' /\ ~past_new_minute'
             /\ UNCHANGED <<second, new_second, first_minute>>
       /\ call'.op = "set_current_bit_b"
          => /\ bit_buffer_b' = [bit_buffer_b EXCEPT ![second] = call'.value]
             /\ bit_buffer_a' = bit_buffer_a
             /\ ~new_minute' /\ ~past_new_minute'
             /\ UNCHANGED <<second, new_second, first_minute>>
      ]_vars

\* C31 happens: set_current_bit_a wrote a 1 into a slot of the end-of-minute
\* marker, next to a known bit of channel B, and no minute flag is set.
C31_WroteBitA ==
    /\ call.op = "set_current_bit_a"
    /\ call.value = Some(TRUE)
    /\ second >= 7
    /\ bit_buffer_a[second] = Some(TRUE)
    /\ bit_buffer_b[second] # None
    /\ ~new_minute /\ ~past_new_minute

\* C32: the very first handle_new_edge call on a fresh decoder only records
\* its timestamp as t0: whatever its direction and timestamp, both bit buffers
\* stay all Unknown, the second counter stays 0 and new_second, new_minute and
\* past_new_minute stay false.
C32_FirstEdgeOnlyRecorded ==
    [][(before_first_edge /\ call'.op = "handle_new_edge")
       => /\ t0' = call'.t
          /\ ~before_first_edge'
          /\ bit_buffer_a' = [i \in Slots |-> None]
          /\ bit_buffer_b' = [i \in Slots |-> None]
          /\ second' = 0
          /\ ~new_second' /\ ~new_minute' /\ ~past_new_minute'
          /\ UNCHANGED <<first_minute, old_t_diff, spike_limit, panicked>>
      ]_vars

\* C32 happens: the first edge was a rising edge with a time stamp other
\* than 0.
C32_FirstEdgeRising ==
    /\ call.op = "handle_new_edge"
    /\ ~call.low
    /\ call.t = U32Ticks - Ticks(20000)
    /\ call.t_diff = 0
    /\ edges = 1 /\ spikes = 0
    /\ t0 = call.t
    /\ ~before_first_edge

\* C33: at every decode at the minute boundary the two DST flags are passed
\* to the accumulator as channel B holds them, the active flag from the slot
\* before the current second (58 + offset) and the announcement from the
\* slot six before it (53 + offset), an unknown bit as unknown, whatever the
\* policy and whatever the parities, DUT1 and the marker are.
C33_DstPassedThrough ==
    [][(/\ call'.op = "decode_time"
        /\ second + 1 = get_minute_length(second, bit_buffer_a))
       => /\ pushed' # None
          /\ pushed'[1].dst.value = bit_buffer_b[second - 1]
          /\ pushed'[1].dst.announce = bit_buffer_b[second - 6]
          /\ (bit_buffer_b[second - 1] # None /\ bit_buffer_b[second - 6] # None)
             => radio_datetime'.dst = bit_buffer_b[second - 1]
      ]_vars

\* C33 happens: a strict decode of a minute with a leap second failed on
\* parity 4 and passed the DST flag that was set on.
C33_DstDespiteFailedStrict ==
    /\ call.op = "decode_time"
    /\ call.strict
    /\ second = 60
    /\ pushed # None
    /\ parity_4 = Some(FALSE)
    /\ first_minute
    /\ pushed[1].dst.value = Some(TRUE)
    /\ pushed[1].dst.announce = Some(FALSE)
    /\ bit_buffer_b[59] = Some(TRUE)
    /\ radio_datetime.dst = Some(TRUE)

\* C34 as stated: a falling edge, not the first edge, with spike_limit <=
\* t_diff < 150000 after an ambiguous previous interval (0, or from 150000 to
\* 450000) leaves the bit pair of the current second Unknown: after the call
\* both channels read Unknown at the current second, whatever the slot held.
C34_AmbiguousLeadInUnknown ==
    [][LET t_diff == (call'.t - t0 + U32Ticks) % U32Ticks
       IN  (/\ call'.op = "handle_new_edge" /\ call'.low
            /\ ~before_first_edge
            /\ t_diff >= spike_limit /\ t_diff < Ticks(150000)
            /\ \/ old_t_diff = 0
               \/ old_t_diff >= Ticks(150000) /\ old_t_diff <= Ticks(450000))
           => /\ bit_buffer_a'[second'] = None
              /\ bit_buffer_b'[second'] = None
      ]_vars

\* C35: after a handle_new_edge call that is neither the first edge nor
\* ignored as a spike, new_minute is true exactly when the edge was a falling
\* edge with t_diff < 150000 and, after the bit this call wrote, the eight
\* slots of channel A that end at the current second hold 0,1,1,1,1,1,1,0;
\* so an edge raises new_minute only from second 7 on, over a window of known
\* bits, at whatever second of the minute.
C35_NewMinuteByEdge ==
    [][(/\ call'.op = "handle_new_edge"
        /\ ~before_first_edge
        /\ call'.t_diff >= spike_limit)
       => (new_minute'
           <=> /\ call'.low
               /\ call'.t_diff < Ticks(150000)
               /\ second' >= 7
               /\ bit_buffer_a'[second' - 7] = Some(FALSE)
               /\ \A i \in (second' - 6) .. (second' - 1) :
                     bit_buffer_a'[i] = Some(TRUE)
               /\ bit_buffer_a'[second'] = Some(FALSE))
      ]_vars

\* C35 happens: a short falling edge has found the marker before second 59
\* and raised new_minute.
C35_RaisedBeforeSecond59 ==
    /\ call.op = "handle_new_edge" /\ call.low
    /\ call.t_diff >= spike_limit /\ call.t_diff < Ticks(150000)
    /\ new_minute
    /\ second >= 7 /\ second < 59
    /\ end_of_minute_marker_present(second, bit_buffer_a)

\* C36: new_minute and past_new_minute are never both true, in every state
\* reached by any sequence of the public operations.
C36_OneMinuteFlag == ~(new_minute /\ past_new_minute)

\* C36 happens: the begin-of-minute marker of an edge has raised
\* past_new_minute, and new_minute is not set.
C36_MarkerEdgeRaisedOneFlag ==
    /\ call.op = "handle_new_edge" /\ call.low
    /\ call.t_diff >= Ticks(ACTIVE_AB_LIMIT) /\ call.t_diff < Ticks(MINUTE_LIMIT)
    /\ past_new_minute
    /\ ~new_minute
    /\ edges >= 3

\* C37: as long as the buffers are written by handle_new_edge and
\* force_past_new_minute only, channel A is Unknown at a slot exactly when
\* channel B is Unknown at that slot, in every reachable state; and a
\* handle_new_edge call changes at most one slot of each channel, that of
\* the current second or slot 0.
C37_ChannelsPaired ==
    /\ [](\A i \in Slots : (bit_buffer_a[i] = None) <=> (bit_buffer_b[i] = None))
    /\ [][call'.op = "handle_new_edge"
          => \E k \in {second, 0} :
                \A i \in Slots \ {k} :
                   /\ bit_buffer_a'[i] = bit_buffer_a[i]
                   /\ bit_buffer_b'[i] = bit_buffer_b[i]
         ]_vars

\* C37 happens: slot 0 holds the (1,1) of a begin-of-minute marker and an
\* edge has stored (0,1) in slot 1.
C37_TwoSlotsPaired ==
    /\ call.op = "handle_new_edge"
    /\ second = 1
    /\ bit_buffer_a[0] = Some(TRUE) /\ bit_buffer_b[0] = Some(TRUE)
    /\ bit_buffer_a[1] = Some(FALSE) /\ bit_buffer_b[1] = Some(TRUE)

\* C38: increase_second changes only the second counter: first_minute,
\* new_minute, past_new_minute, new_second, both bit buffers, the parities and
\* DUT1 are unchanged by it. So new_minute stays set after the counter was
\* reset, and a call made while it is set leaves the counter at 0.
C38_IncreaseSecondFrame ==
    [][call'.op = "increase_second"
       => /\ UNCHANGED <<first_minute, new_minute, past_new_minute, new_second,
                         bit_buffer_a, bit_buffer_b, parity_1, parity_2,
                         parity_3, parity_4, dut1, radio_datetime>>
          /\ new_minute => (second' = 0 /\ new_minute' /\ call'.ret)
      ]_vars

\* C38 happens: after a decoded minute, increase_second has reset the
\* counter on new_minute, which is still set, as are the parities and DUT1.
C38_ResetKeepsNewMinute ==
    /\ call.op = "increase_second"
    /\ call.ret
    /\ second = 0
    /\ minutes = 1
    /\ new_minute
    /\ ~first_minute
    /\ parity_1 = Some(TRUE)
    /\ dut1 # None

\* C39: when at second 59 the look-ahead predicts a minute of 61 seconds
\* (the slots 53 .. 59 of channel A hold 0,1,1,1,1,1,1) and the final 0 of
\* the marker does not arrive at second 60, no decode_time call at second 59,
\* 60 or 61 extracts fields, and with new_minute unset increase_second goes
\* from 59 to 60, from 60 to 61 and from 61 back to 0, so the counter is
\* back at 0 after three calls, of which the last returns false.
C39_PredictedLeapSkipped ==
    [][LET predicted == search_eom_marker(59, bit_buffer_a, TRUE)
           missing == predicted /\ bit_buffer_a[60] # Some(FALSE)
           skipping == \/ second = 59 /\ predicted
                       \/ second = 60 /\ missing
                       \/ second = 61 /\ missing
       IN  /\ (call'.op = "decode_time" /\ skipping)
              => /\ pushed' = None
                 /\ UNCHANGED <<first_minute, parity_1, parity_2, parity_3,
                                parity_4, dut1>>
          /\ (call'.op = "increase_second" /\ skipping /\ ~new_minute)
              => /\ second' = (IF second = 61 THEN 0 ELSE second + 1)
                 /\ call'.ret = (second # 61)
      ]_vars

\* C39 happens: in a minute with a leap second the last bit of the marker
\* was received as a 1; nothing was decoded, and the counter has wrapped from
\* second 61 with increase_second returning false.
C39_WrappedUndecoded ==
    /\ call.op = "increase_second"
    /\ ~call.ret
    /\ second = 0
    /\ minutes = 1
    /\ ~new_minute
    /\ search_eom_marker(59, bit_buffer_a, TRUE)
    /\ bit_buffer_a[60] = Some(TRUE)
    /\ first_minute
    /\ pushed = None
    /\ decodes = 0

\* C40: every field pushed by a decode_time call entered with first_minute
\* true is pushed with track_jump false, also by the call that clears
\* first_minute, so no jump is flagged while first_minute is true; in a call
\* entered with first_minute false the six calendar pushes and the DST push
\* all carry the result of that call's add_minute as track_jump.
C40_TrackJump ==
    /\ [](first_minute => radio_datetime.jumps = {})
    /\ [][(call'.op = "decode_time" /\ pushed' # None)
          => LET tracks == {pushed'[1].fields[f].track_jump : f \in RdtFields}
                               \cup {pushed'[1].dst.track_jump}
                 added_minute == rdt_add_minute(rdt_clear_jumps(radio_datetime)).ret
             IN  IF first_minute
                 THEN tracks = {FALSE} /\ radio_datetime'.jumps = {}
                 ELSE tracks = {added_minute}
         ]_vars

\* C40 happens: the decode that cleared first_minute has pushed every field
\* without jump tracking.
C40_ClearingDecodeUntracked ==
    /\ call.op = "decode_time"
    /\ pushed # None
    /\ decodes = 1
    /\ minutes = 0
    /\ ~first_minute
    /\ \A f \in RdtFields : ~pushed[1].fields[f].track_jump
    /\ ~pushed[1].dst.track_jump
    /\ radio_datetime.jumps = {}

====
